---------------------------- MODULE Spec2Model ----------------------------
(***************************************************************************)
(* A model of the tuning schedule of ji-performer (src/src/tuner.rs):      *)
(* Tuner::new, which validates and (if needed) sorts a list of TuningData, *)
(* and Tuner::update, the cursor-based lookup driven by the playback time. *)
(*                                                                         *)
(* Times are f64 seconds in the source.  The code only ever compares a     *)
(* time with another time (>=, <), so times are modelled as integers: any  *)
(* order pattern of finitely many non-NaN floats is realised by integers.  *)
(* Sequences are 1-based here and 0-based in the source: the entry the     *)
(* source calls tunings[i] is tunings[i + 1] below.                        *)
(***************************************************************************)
EXTENDS Integers, Sequences, FiniteSets

\* Longest input list handed to Tuner::new.
MaxLen == 3

\* Largest activation time of an input entry; queries go one past it.
MaxTime == 2

\* The 12 semitone classes, A .. G#  (SEMITONE_NAMES).
NumClasses == 12

Classes == 0 .. (NumClasses - 1)

(***************************************************************************)
(* Rational: a reduced fraction <<numerator, denominator>>.                *)
(***************************************************************************)
RationalZero == <<0, 1>>

IsZero(x) == x = RationalZero

\* The first entry of the Ondine schedule, td(0.0, 4, 5/4, [...]), as the
\* absolute array indexed by class (A first) that td hands to TuningData::new.
TuningBar0 ==
    LET s == << <<65, 64>>, <<25, 24>>, <<35, 32>>, <<75, 64>>,
                <<5, 4>>,   <<85, 64>>, <<45, 32>>, <<95, 64>>,
                <<25, 16>>, <<5, 3>>,   <<55, 32>>, <<15, 8>> >>
    IN  [i \in Classes |-> s[i + 1]]

\* The second entry of the Ondine schedule: every class keeps its previous
\* tuning (P, the 0-valued sentinel) except classes 5 and 11.
TuningBar5 ==
    [i \in Classes |-> CASE i = 5  -> <<125, 96>>
                         [] i = 11 -> <<175, 96>>
                         [] OTHER  -> RationalZero]

TuningChoices == {TuningBar0, TuningBar5}

\* Activation times of input entries.  A negative time is a possible input
\* (Tuner::new is what is supposed to reject it).
EntryTimes == (-1) .. MaxTime

\* Times a caller may pass to update.
QueryTimes == (-1) .. (MaxTime + 1)

\* TuningData, as far as Tuner reads it: the activation time and the 12
\* intervals.
TuningData(time, tuning) == [time |-> time, tuning |-> tuning]

TuningDatas == {TuningData(t, tu) : t \in EntryTimes, tu \in TuningChoices}

RECURSIVE SeqsUpTo(_)
SeqsUpTo(n) ==
    IF n = 0 THEN {<<>>}
    ELSE LET shorter == SeqsUpTo(n - 1)
         IN  shorter \cup {Append(s, e) : s \in {x \in shorter : Len(x) = n - 1},
                                          e \in TuningDatas}

Inputs == SeqsUpTo(MaxLen)

(***************************************************************************)
(* JIRatio for Rational: monzo() and cents()                               *)
(***************************************************************************)

\* Option<T>: None is the empty sequence, Some(v) the one-element sequence.
OptNone == <<>>

OptSome(v) == <<v>>

IsSome(o) == o # OptNone

\* Plain monzos, without octave reduction.
OctaveReductionOff == FALSE

\* const USE_OCT_RED_MONZOS: bool = true
USE_OCT_RED_MONZOS == TRUE

\* The largest key of PRIMES: the 1000th prime (Sieve::new().iter().take(1000)).
LastPrime == 7919

IsPrime(p) == p >= 2 /\ \A d \in 2 .. (p - 1) : d * d > p \/ p % d # 0

\* PRIMES.get(p): 2 -> 0, 3 -> 1, 5 -> 2, ...
PrimeIndex(p) == Cardinality({q \in 2 .. (p - 1) : IsPrime(q)})

RECURSIVE Log2Floor(_)
Log2Floor(n) == IF n < 2 THEN 0 ELSE 1 + Log2Floor(n \div 2)

\* The octaves of a prime rounded up: (p as f64).log2().ceil()
PrimeOctavesRoundedUp(p) == IF p = 2 THEN 1 ELSE Log2Floor(p) + 1

\* PRIMES_OCTAVES.get(p): (p as f64).log2().floor()
PrimeOctaves(p) == Log2Floor(p)

\* The primes PrimeFactors::from(n) lists (none for n = 1).
PrimeFactorsOf(n) == {p \in 2 .. n : n % p = 0 /\ IsPrime(p)}

\* The exponent PrimeFactors::from(n) gives prime p.
RECURSIVE Exponent(_, _)
Exponent(n, p) == IF n % p = 0 THEN 1 + Exponent(n \div p, p) ELSE 0

RECURSIVE MaxOf(_)
MaxOf(S) ==
    LET x == CHOOSE x \in S : TRUE
    IN  IF S = {x} THEN x
        ELSE LET m == MaxOf(S \ {x}) IN IF x > m THEN x ELSE m

\* oct_offset: over the primes p != 2 of numerator and denominator,
\* floor(log2 p) times the exponent, added for the numerator and subtracted
\* for the denominator.
RECURSIVE OctOffset(_, _, _)
OctOffset(ps, num, den) ==
    IF ps = {} THEN 0
    ELSE LET p == CHOOSE p \in ps : TRUE IN
         (IF USE_OCT_RED_MONZOS /\ p # 2
          THEN PrimeOctaves(p) * (Exponent(num, p) - Exponent(den, p))
          ELSE 0)
         + OctOffset(ps \ {p}, num, den)

\* monzo() asks PRIMES for every prime factor: one beyond the table panics.
MonzoPanics(x) ==
    /\ ~IsZero(x)
    /\ \E p \in PrimeFactorsOf(x[1]) \cup PrimeFactorsOf(x[2]) : p > LastPrime

\* Rational::monzo(): None for 0; otherwise the vector of prime exponents,
\* starting as [0] and resized to the largest prime index met, with oct_offset
\* added to the exponent of 2.
Monzo(x) ==
    IF IsZero(x) THEN OptNone
    ELSE LET num == x[1]
             den == x[2]
             ps  == PrimeFactorsOf(num) \cup PrimeFactorsOf(den)
             len == 1 + MaxOf({0} \cup {PrimeIndex(p) : p \in ps})
             raw == [k \in 1 .. len |->
                        LET qs == {p \in ps : PrimeIndex(p) = k - 1} IN
                        IF qs = {} THEN 0
                        ELSE LET p == CHOOSE p \in qs : TRUE
                             IN  Exponent(num, p) - Exponent(den, p)]
         IN  OptSome([raw EXCEPT ![1] = @ + OctOffset(ps, num, den)])

(***************************************************************************)
(* Natural numbers beyond TLC's 32-bit integers, as little-endian          *)
(* sequences of digits: cents() is a logarithm, and the range check of     *)
(* TuningData::new compares it with a rational number of octaves, which is *)
(* a comparison of two integers of up to a few hundred bits.               *)
(***************************************************************************)
BigBase == 10^4

\* a * m + c, for a digit sequence a and small naturals m >= 1 and c.
RECURSIVE BigMulAdd(_, _, _)
BigMulAdd(a, m, c) ==
    IF a = <<>>
    THEN IF c = 0 THEN <<>> ELSE <<c % BigBase>> \o BigMulAdd(<<>>, m, c \div BigBase)
    ELSE LET v == a[1] * m + c
         IN  <<v % BigBase>> \o BigMulAdd(Tail(a), m, v \div BigBase)

\* a * m^e
RECURSIVE BigTimesPow(_, _, _)
BigTimesPow(a, m, e) ==
    IF e = 0 THEN a ELSE BigTimesPow(BigMulAdd(a, m, 0), m, e - 1)

\* a < b, for digit sequences without leading zeros.
RECURSIVE BigLess(_, _)
BigLess(a, b) ==
    IF Len(a) # Len(b) THEN Len(a) < Len(b)
    ELSE IF a = <<>> THEN FALSE
    ELSE IF a[Len(a)] # b[Len(b)] THEN a[Len(a)] < b[Len(b)]
    ELSE BigLess(SubSeq(a, 1, Len(a) - 1), SubSeq(b, 1, Len(b) - 1))

(***************************************************************************)
(* TuningData::new                                                         *)
(***************************************************************************)

\* pub const PB_RANGE: u16 = 4   (main.rs)
PB_RANGE == 4

\* 1200 cents to the octave, 100 to the semitone of the reference.
SemitonesPerOctave == 1200 \div 100

\* n^SemitonesPerOctave * 2^k
OctavePower(n, k) == BigTimesPow(BigTimesPow(<<1>>, n, SemitonesPerOctave), 2, k)

Max0(k) == IF k > 0 THEN k ELSE 0

\* The upper range check with >= for >: an offset of exactly +PB_RANGE
\* semitones refused.
PercentAboveOneInclusive(x, i) ==
    ~BigLess(OctavePower(x[1], 0), OctavePower(x[2], i + PB_RANGE))

\* pb_range_percent > 1.0 for the non-zero interval x = num/den at class i,
\* where pb_range_percent = (log2(x) * 1200 - 100 * i) / 100 / PB_RANGE:
\* in exact arithmetic, num^12 > 2^(i + PB_RANGE) * den^12.
PercentAboveOne(x, i) ==
    BigLess(OctavePower(x[2], i + PB_RANGE), OctavePower(x[1], 0))

\* pb_range_percent < -1.0: in exact arithmetic,
\* num^12 * 2^PB_RANGE < 2^i * den^12.
PercentBelowMinusOne(x, i) ==
    BigLess(OctavePower(x[1], Max0(PB_RANGE - i)), OctavePower(x[2], Max0(i - PB_RANGE)))

\* if pb_range_percent > 1.0 || pb_range_percent < -1.0 { panic!(...) }
BendOutOfRange(x, i) == PercentAboveOne(x, i) \/ PercentBelowMinusOne(x, i)

\* PitchBend::from_f64(pb_range_percent): the conversion is the MIDI
\* library's; the value is kept as the class and interval that determine the
\* normalized offset it encodes.
PitchBendOf(x, i) == [class |-> i, interval |-> x]

\* PitchBend::from_int(0), the centre.
PitchBendCentre == [class |-> -1, interval |-> <<1, 1>>]

\* A bend message addressed to the channel of another class.
BendMessageNextChannel(channel, bend) ==
    [type |-> "PitchBend", channel |-> (channel + 1) % NumClasses, bend |-> bend]

\* LiveEvent::Midi { channel, message: MidiMessage::PitchBend { bend } },
\* written to raw bytes.
BendMessage(channel, bend) ==
    [type |-> "PitchBend", channel |-> channel, bend |-> bend]

\* A bend for every class, the sentinel included.
PitchBendsNoSentinel(tuning) ==
    [i \in Classes |-> OptSome(PitchBendOf(tuning[i], i))]

\* pitch_bend_percents, then pitch_bends: Some exactly where cents() is Some,
\* that is where the interval is not 0.
PitchBends(tuning) ==
    [i \in Classes |-> IF IsZero(tuning[i]) THEN OptNone
                       ELSE OptSome(PitchBendOf(tuning[i], i))]

\* midi_messages: the message of class i goes to channel i.
MidiMessages(pitch_bends) ==
    [i \in Classes |-> IF IsSome(pitch_bends[i])
                       THEN OptSome(BendMessage(i, pitch_bends[i][1]))
                       ELSE OptNone]

TdOk(td) == [kind |-> "ok", msg |-> "", td |-> td]

TdPanic(msg) == [kind |-> "panic", msg |-> msg, td |-> <<>>]

\* TuningData::new(tuning, time): monzo() of every class first (line 189),
\* then the range check class by class, then the derived arrays.
TuningDataNew(tuning, time) ==
    IF \E i \in Classes : MonzoPanics(tuning[i])
    THEN TdPanic("Prime not found in PRIMES map")
    ELSE IF \E i \in Classes : ~IsZero(tuning[i]) /\ BendOutOfRange(tuning[i], i)
    THEN TdPanic("Pitch bend range exceeded")
    ELSE TdOk([tuning        |-> tuning,
               time          |-> time,
               monzos        |-> [i \in Classes |-> Monzo(tuning[i])],
               pitch_bends   |-> PitchBends(tuning),
               midi_messages |-> MidiMessages(PitchBends(tuning))])

\* Intervals to try at one class: the sentinel, the two intervals whose
\* offset is exactly -PB_RANGE semitones at class 4 (1/1) and exactly
\* +PB_RANGE at class 8 (2/1), and intervals a schisma (32805/32768, about 2
\* cents) to either side of them.
TestRatios ==
    { RationalZero, <<1, 1>>, <<2, 1>>, <<3, 2>>,
      <<32805, 16384>>, <<65536, 32805>>, <<32768, 32805>>, <<32805, 32768>> }

\* A tuning with the interval of one class replaced.
TdInputs ==
    {[tuning |-> [base EXCEPT ![i] = x], time |-> 0] :
        base \in TuningChoices, i \in Classes, x \in TestRatios}

(***************************************************************************)
(* Tuner::new                                                              *)
(***************************************************************************)

\* tunings[0].tuning.iter().any(|x| *x == Rational::zero())
HasSentinel(td) == \E i \in Classes : IsZero(td.tuning[i])

\* A sort that leaves the order as it finds it.
InsertUnordered(s, e) == Append(s, e)

\* Insert e into the sorted sequence s after every element whose time is
\* not greater: the position a stable sort gives it.
RECURSIVE InsertByTime(_, _)
InsertByTime(s, e) ==
    IF s = <<>> THEN <<e>>
    ELSE IF e.time < s[Len(s)].time
         THEN Append(InsertByTime(SubSeq(s, 1, Len(s) - 1), e), s[Len(s)])
         ELSE Append(s, e)

\* sorted_tunings.sort_by(|a, b| a.time.partial_cmp(&b.time).unwrap()):
\* slice::sort_by is a stable sort.
RECURSIVE SortByTime(_)
SortByTime(s) ==
    IF s = <<>> THEN <<>>
    ELSE InsertByTime(SortByTime(SubSeq(s, 1, Len(s) - 1)), s[Len(s)])

NewOk(ts) == [kind |-> "ok", msg |-> "", tunings |-> ts]

NewPanic(msg) == [kind |-> "panic", msg |-> msg, tunings |-> <<>>]

\* The loop over the input of Tuner::new, from entry k (1-based) with the
\* running curr_time: an entry is asserted non-negative when the loop reaches
\* it, and the first entry earlier than its predecessor sorts the clone and
\* leaves the loop.
RECURSIVE NewLoop(_, _, _)
NewLoop(tunings, k, curr_time) ==
    IF k > Len(tunings) THEN NewOk(tunings)
    ELSE IF ~(tunings[k].time >= 0)
         THEN NewPanic("Tuning time must be non-negative")
    ELSE IF tunings[k].time < curr_time
         THEN NewOk(SortByTime(tunings))
    ELSE NewLoop(tunings, k + 1, tunings[k].time)

\* Tuner::new without the length assertion, the sentinel check skipped for a
\* list with no first entry.
TunerNewNoLenCheck(tunings) ==
    IF tunings = <<>> THEN NewOk(tunings)
    ELSE IF HasSentinel(tunings[1])
    THEN NewPanic("First tuning data cannot use 0-value elements!")
    ELSE NewLoop(tunings, 1, 0)

\* assert!(tunings.len() >= 1, ...)
LenCheck(tunings) == Len(tunings) >= 1

\* Which entry the sentinel check of Tuner::new looks at: the first of the
\* input list, as given.
FirstChecked(tunings) == tunings[1]

TunerNew(tunings) ==
    IF ~LenCheck(tunings)
    THEN NewPanic("Must have at least one tuning!")
    ELSE IF HasSentinel(FirstChecked(tunings))
    THEN NewPanic("First tuning data cannot use 0-value elements!")
    ELSE NewLoop(tunings, 1, 0)

(***************************************************************************)
(* Tuner::update                                                           *)
(***************************************************************************)

\* `self.curr_tuning_idx as usize`: the cast of an isize wraps, so -1 becomes
\* usize::MAX.  The true modulus (2^64 on a 64-bit target) is beyond TLC's
\* integers; the code only compares the result with Vec lengths and indexes a
\* Vec with it, and every modulus above all lengths gives the same answers.
UsizeModulus == 2^30

AsUsize(i) == IF i < 0 THEN i + UsizeModulus ELSE i

\* An entry returned without `self.curr_tuning_idx += 1`.
SomeNoAdvance(idx, entry) ==
    [kind |-> "Some", entry |-> entry, idx |-> idx - 1, msg |-> ""]

\* `self.curr_tuning_idx += 1; return Some(&self.tunings[entry])`: idx is
\* the cursor after the increment.
Some(idx, entry) == [kind |-> "Some", entry |-> entry, idx |-> idx, msg |-> ""]

None(idx) == [kind |-> "None", entry |-> -1, idx |-> idx, msg |-> ""]

UpdatePanic(idx, msg) == [kind |-> "panic", entry |-> -1, idx |-> idx, msg |-> msg]

\* The first entry activating only strictly after its time.
FirstReachedStrict(tunings, time) == time > tunings[1].time

\* time >= self.tunings[0].time, in the branch for curr_tuning_idx == -1
FirstReached(tunings, time) == time >= tunings[1].time

\* The last-entry test off by one.
AtLastOffByOne(tunings, curr_t_idx) == curr_t_idx = Len(tunings)

\* curr_t_idx == self.tunings.len() - 1
AtLast(tunings, curr_t_idx) == curr_t_idx = Len(tunings) - 1

\* time < self.tunings[curr_t_idx].time
WentBackwards(tunings, curr_t_idx, time) == time < tunings[curr_t_idx + 1].time

\* The boundary test reading the current entry instead of the next one.
NextReachedCurrent(tunings, curr_t_idx, time) == time >= tunings[curr_t_idx + 1].time

\* time >= self.tunings[curr_t_idx + 1].time
NextReached(tunings, curr_t_idx, time) == time >= tunings[curr_t_idx + 2].time

\* 0-based index of the latest entry of a sorted schedule active at `time`.
LatestActive(tunings, time) ==
    CHOOSE j \in 0 .. (Len(tunings) - 1) :
        /\ tunings[j + 1].time <= time
        /\ \A k \in (j + 1) .. (Len(tunings) - 1) : tunings[k + 1].time > time

\* An update that jumps to the latest active entry instead of stepping once.
UpdateRestSkipping(tunings, idx, time) ==
    LET curr_t_idx == AsUsize(idx) IN
    IF AtLast(tunings, curr_t_idx) THEN None(idx)
    ELSE IF curr_t_idx >= Len(tunings)
         THEN UpdatePanic(idx, "index out of bounds")
    ELSE IF WentBackwards(tunings, curr_t_idx, time)
         THEN UpdatePanic(idx, "Time went backwards!")
    ELSE IF curr_t_idx + 1 >= Len(tunings)
         THEN UpdatePanic(idx, "index out of bounds")
    ELSE IF NextReached(tunings, curr_t_idx, time)
         THEN Some(LatestActive(tunings, time), LatestActive(tunings, time))
    ELSE None(idx)

\* The part of update after the first-entry branch.  Indexing a Vec out of
\* bounds panics.
UpdateRest(tunings, idx, time) ==
    LET curr_t_idx == AsUsize(idx) IN
    IF AtLast(tunings, curr_t_idx) THEN None(idx)
    ELSE IF curr_t_idx >= Len(tunings)
         THEN UpdatePanic(idx, "index out of bounds")
    ELSE IF WentBackwards(tunings, curr_t_idx, time)
         THEN UpdatePanic(idx, "Time went backwards!")
    ELSE IF curr_t_idx + 1 >= Len(tunings)
         THEN UpdatePanic(idx, "index out of bounds")
    ELSE IF NextReached(tunings, curr_t_idx, time)
         THEN Some(idx + 1, curr_t_idx + 1)
    ELSE None(idx)

\* update(time) on a tuner with schedule `tunings` and cursor idx: what is
\* returned (entry: the 0-based index of the returned entry) and the cursor
\* afterwards.
TunerUpdate(tunings, idx, time) ==
    IF idx = -1 /\ FirstReached(tunings, time)
    THEN Some(idx + 1, 0)
    ELSE UpdateRest(tunings, idx, time)

(***************************************************************************)
(* main: the playback loop (src/src/main.rs).                              *)
(*                                                                         *)
(* In this machine times are integers of milliseconds (f64 seconds in the  *)
(* source); the tracks below make every time a whole number of them.       *)
(***************************************************************************)

\* Longest track (number of events of smf.tracks[0]).
MaxEvents == 2

\* smf.header.timing: ticks per quarter note of the file played.
PPQN == 4

\* MIDI channels 0..=15 (the loop of reset).
NumChannels == 16

\* The MIDI key of A4.
A4 == 69

\* Track events: delta ticks and kind; a and b are the tempo in microseconds
\* per quarter note, or key and velocity, or controller and value.
Event(delta, kind, a, b) == [delta |-> delta, kind |-> kind, a |-> a, b |-> b]

EventKinds ==
    { <<"Tempo", 250000, 0>>,      \* MetaMessage::Tempo: 240 bpm
      <<"TrackName", 0, 0>>,       \* another meta event
      <<"NoteOn", 62, 100>>,       \* D4: class 5, one octave below A4
      <<"NoteOff", 62, 0>>,
      <<"Controller", 64, 127>> }  \* sustain pedal

\* Delta ticks: none, or a quarter note.
Deltas == {0, PPQN}

Events == {Event(d, k[1], k[2], k[3]) : d \in Deltas, k \in EventKinds}

RECURSIVE TracksUpTo(_)
TracksUpTo(n) ==
    IF n = 0 THEN {<<>>}
    ELSE LET shorter == TracksUpTo(n - 1)
         IN  shorter \cup {Append(t, e) : t \in {x \in shorter : Len(x) = n - 1},
                                          e \in Events}

Tracks == TracksUpTo(MaxEvents)

\* TrackEventKind::Midi { .. }
IsMidiEvent(ev) == ev.kind \in {"NoteOn", "NoteOff", "Controller"}

\* The arguments of the td(...) calls that build the schedule (ondine::TUNER),
\* as [tuning, time]: schedules with one, two and three entries, one whose
\* first entry comes after time 0, one given out of order, and the three
\* that construction refuses.
Arg(tuning, time) == [tuning |-> tuning, time |-> time]

ScheduleArgs ==
    { << Arg(TuningBar0, 0), Arg(TuningBar5, 500) >>,
      << Arg(TuningBar0, 0), Arg(TuningBar5, 250), Arg(TuningBar0, 500) >>,
      << Arg(TuningBar0, 250) >>,
      << Arg(TuningBar0, 500), Arg(TuningBar5, 0) >>,
      << >>,
      << Arg(TuningBar5, 0) >>,
      << Arg([TuningBar0 EXCEPT ![8] = <<32805, 16384>>], 0) >> }

\* The compile-time switches of main.rs: ACTIVATE_MIDI, ACTIVATE_VISUALIZER
\* and START_FROM (here in milliseconds), as the source has them.
SourceConfig == [midi |-> FALSE, vis |-> TRUE, start_from |-> 0]

\* The switches set otherwise.
OtherConfigs ==
    { [midi |-> TRUE, vis |-> TRUE,  start_from |-> 500],
      [midi |-> TRUE, vis |-> FALSE, start_from |-> 0] }

\* What the sinks do: at most one send fails in a run, the at-th send to
\* one sink (counting from 1); every other send succeeds.
NoFault == [sink |-> "none", at |-> 0]

\* The last MIDI send of the first reset, and the first after it.
MidiFaultPoints == {NumChannels * 3, NumChannels * 3 + 1}

\* The last visualizer send of the first reset, and the first after it.
VisFaultPoints == {2, 3}

FaultPlans ==
    {NoFault}
    \cup {[sink |-> "vis", at |-> n] : n \in VisFaultPoints}
    \cup {[sink |-> "midi", at |-> n] : n \in MidiFaultPoints}

\* The runs looked at: the source's switches with every fault plan, the
\* other switches without a fault.
Environments ==
    {[cfg |-> SourceConfig, plan |-> f] : f \in FaultPlans}
    \cup {[cfg |-> c, plan |-> NoFault] : c \in OtherConfigs}

\* The schedule the other environments are run with.
MainSchedule == << Arg(TuningBar0, 0), Arg(TuningBar5, 500) >>

\* The runs of main looked at: every schedule with the source's switches and
\* no fault, and the main schedule with every environment.
Runs ==
    {[args |-> as, cfg |-> SourceConfig, plan |-> NoFault] : as \in ScheduleArgs}
    \cup {[args |-> MainSchedule, cfg |-> e.cfg, plan |-> e.plan] : e \in Environments}

(***************************************************************************)
(* Messages and sinks                                                      *)
(***************************************************************************)

\* LiveEvent::Midi { channel, message: MidiMessage::Controller { .. } }
CcMessage(channel, controller, value) ==
    [type |-> "Controller", channel |-> channel, a |-> controller, b |-> value]

NoteOnMessage(channel, key, vel) ==
    [type |-> "NoteOn", channel |-> channel, a |-> key, b |-> vel]

NoteOffMessage(channel, key, vel) ==
    [type |-> "NoteOff", channel |-> channel, a |-> key, b |-> vel]

\* VisualizerMessage::CC / NoteOn / NoteOff
VisCc(controller, value) ==
    [type |-> "CC", a |-> controller, b |-> value, monzo |-> <<>>]

VisNoteOn(edosteps_from_a4, velocity, monzo) ==
    [type |-> "NoteOn", a |-> edosteps_from_a4, b |-> velocity, monzo |-> monzo]

VisNoteOff(edosteps_from_a4, velocity) ==
    [type |-> "NoteOff", a |-> edosteps_from_a4, b |-> velocity, monzo |-> <<>>]

\* A sink: the messages it has received and the number of sends tried.
\* failed: a send of this batch failed, and the batch stopped there.
Sink(log, sends, failed) == [log |-> log, sends |-> sends, failed |-> failed]

\* Sending msgs in order to the sink `name` under the fault plan, up to and
\* including the first send that fails.
SendAll(sink, name, plan, msgs) ==
    LET k == IF plan.sink = name /\ sink.sends < plan.at
                                 /\ plan.at <= sink.sends + Len(msgs)
             THEN plan.at - sink.sends ELSE 0
    IN  IF k = 0
        THEN Sink(sink.log \o msgs, sink.sends + Len(msgs), FALSE)
        ELSE Sink(sink.log \o SubSeq(msgs, 1, k - 1), sink.sends + k, TRUE)

\* The MIDI messages of reset(): for every channel CC 121, CC 123 and the
\* centred pitch bend.
RECURSIVE ResetMidiFrom(_)
ResetMidiFrom(c) ==
    IF c > NumChannels - 1 THEN <<>>
    ELSE << CcMessage(c, 121, 0), CcMessage(c, 123, 0),
            BendMessage(c, PitchBendCentre) >> \o ResetMidiFrom(c + 1)

ResetMidiMessages == ResetMidiFrom(0)

\* CC 121 and CC 123 for the visualizer, once per MIDI channel.
RECURSIVE ResetVisFrom(_)
ResetVisFrom(c) ==
    IF c > NumChannels - 1 THEN <<>>
    ELSE << VisCc(121, 0), VisCc(123, 0) >> \o ResetVisFrom(c + 1)

ResetVisPerChannel == ResetVisFrom(0)

\* The visualizer messages of reset(): CC 121 and CC 123, once.
ResetVisMessages == << VisCc(121, 0), VisCc(123, 0) >>

(***************************************************************************)
(* The state machine: one Tuner::new on an arbitrary input list, then any  *)
(* sequence of update calls.  A panic aborts the process.                  *)
(***************************************************************************)
VARIABLES
    pc,               \* "start", "ready" (a Tuner exists), "panic" (aborted)
    input,            \* the list Tuner::new was called with
    tunings,          \* Tuner.tunings
    curr_tuning_idx,  \* Tuner.curr_tuning_idx
    ret,              \* the last call: what it was, its argument and result
    returned,         \* 0-based indices of the entries update has returned
    repeated          \* the last call repeated the time of the call before
                      \* it, and that call had returned an entry

tunerVars == <<pc, input, tunings, curr_tuning_idx, ret, returned, repeated>>

\* One call of TuningData::new.
VARIABLES
    tdIn,             \* its arguments: [tuning, time]
    tdOut             \* its outcome, TdNotRun before the call

tdVars == <<tdIn, tdOut>>

\* One run of main.
VARIABLES
    ppc,                \* where main is: "boot", "reset" (before the loop),
                        \* "poll" (top of the loop), "event" (after the
                        \* poll), "finish" (after the loop), "closed",
                        \* "panic" (aborted)
    args,               \* the td(...) arguments of the schedule
    TUNER,              \* ondine::TUNER: what its initializer gives when
                        \* the static is first used
    track,              \* smf.tracks[0]
    cfg,                \* ACTIVATE_MIDI, ACTIVATE_VISUALIZER, START_FROM
    plan,               \* the send that fails, if any
    tuner,              \* TUNER: [tunings, curr_tuning_idx]
    event_idx,          \* 1-based position in the track of the event at hand
    curr_bpm,           \* a fraction <<numerator, denominator>>
    expected_curr_time,
    start,              \* start.is_some()
    curr_tuning,
    curr_monzos,
    tuning_data,        \* what tuner.update returned for the event at hand
    exit_flag,
    midi_conn,          \* the MIDI sink
    visualizer,         \* the visualizer sink (broadcast_channel)
    warnings,           \* failed visualizer sends that were logged
    resets,             \* runs of reset() that were begun
    polls,              \* reads of exit_flag by the loop
    dispatched_late,    \* events dispatched while exit_flag was set
    before,             \* what the last step of main found: where main
                        \* was, the length of the sinks' logs, the cache,
                        \* the flag, the warnings and the event at hand
    fell_behind,        \* the last event dispatched came later than 1 ms
                        \* after its expected time ("WARN: Falling behind")
    start_instant       \* the Instant in start: the position in the track
                        \* of the event at which it was taken, 0 for None

playVars ==
    <<ppc, args, TUNER, track, cfg, plan, tuner, event_idx, curr_bpm,
      expected_curr_time, start, curr_tuning, curr_monzos, tuning_data,
      exit_flag, midi_conn, visualizer, warnings, resets, polls,
      dispatched_late, before, fell_behind, start_instant>>

\* One call of one of the other functions.
VARIABLES
    call,               \* the function and its arguments: [fn, args]
    result              \* what it returned, NotCalled before the call

fnVars == <<call, result>>

vars == <<tunerVars, tdVars, playVars, fnVars>>

\* [Rational::new(1, 1); 12] and its monzos.
DummyTuning == [i \in Classes |-> <<1, 1>>]

DummyMonzos == [i \in Classes |-> Monzo(DummyTuning[i])[1]]

EmptySink == Sink(<<>>, 0, FALSE)

NoTuner == [tunings |-> <<>>, curr_tuning_idx |-> -1]

\* let mut curr_bpm = 120f64
InitialBpm == <<120, 1>>

\* The state a step of main starts from, as far as the properties below look
\* back at it.
Snapshot ==
    [ppc |-> ppc, midi |-> Len(midi_conn.log), vis |-> Len(visualizer.log),
     curr_tuning |-> curr_tuning, curr_monzos |-> curr_monzos,
     exit_flag |-> exit_flag, warnings |-> warnings, event_idx |-> event_idx,
     start |-> start, start_instant |-> start_instant,
     time |-> expected_curr_time,
     cursor |-> tuner.curr_tuning_idx, curr_bpm |-> curr_bpm]

PlayStart ==
    /\ ppc = "boot"
    /\ tuner = NoTuner
    /\ event_idx = 1
    /\ curr_bpm = InitialBpm
    /\ expected_curr_time = 0
    /\ start = FALSE
    /\ curr_tuning = DummyTuning
    /\ curr_monzos = DummyMonzos
    /\ tuning_data = OptNone
    /\ exit_flag = FALSE
    /\ midi_conn = EmptySink
    /\ visualizer = EmptySink
    /\ warnings = 0
    /\ resets = 0
    /\ polls = 0
    /\ dispatched_late = 0
    /\ before = [ppc |-> "none", midi |-> 0, vis |-> 0,
                 curr_tuning |-> DummyTuning, curr_monzos |-> DummyMonzos,
                 exit_flag |-> FALSE, warnings |-> 0, event_idx |-> 1,
                 start |-> FALSE, start_instant |-> 0, time |-> 0,
                 cursor |-> -1, curr_bpm |-> InitialBpm]
    /\ fell_behind = FALSE
    /\ start_instant = 0

\* No run of main is being looked at.
PlayIdle ==
    /\ PlayStart
    /\ args = <<>>
    /\ TUNER = NewPanic("")
    /\ track = <<>>
    /\ cfg = SourceConfig
    /\ plan = NoFault

NotCalled == [kind |-> "none"]

\* No call of another function is being looked at.
FnIdle == call = [fn |-> "none", args |-> << >>] /\ result = NotCalled

TdNotRun == [kind |-> "none", msg |-> "", td |-> <<>>]

\* No call of TuningData::new is being looked at.
TdIdle == tdIn = [tuning |-> TuningBar0, time |-> 0] /\ tdOut = TdNotRun

NoCall ==
    [op |-> "none", time |-> 0, from |-> -1, kind |-> "", entry |-> -1, msg |-> ""]

Init ==
    /\ pc = "start"
    /\ input = <<>>
    /\ tunings = <<>>
    /\ curr_tuning_idx = -1
    /\ ret = NoCall
    /\ returned = <<>>
    /\ repeated = FALSE
    /\ TdIdle
    /\ PlayIdle
    /\ FnIdle

New(in) ==
    /\ pc = "start"
    /\ LET r == TunerNew(in) IN
        /\ input' = in
        /\ pc' = IF r.kind = "ok" THEN "ready" ELSE "panic"
        /\ tunings' = r.tunings
        /\ curr_tuning_idx' = -1
        /\ ret' = [op |-> "new", time |-> 0, from |-> -1, kind |-> r.kind,
                   entry |-> -1, msg |-> r.msg]
    /\ UNCHANGED <<returned, repeated>>
    /\ UNCHANGED <<tdVars, playVars, fnVars>>

Update(time) ==
    /\ pc = "ready"
    /\ LET r == TunerUpdate(tunings, curr_tuning_idx, time) IN
        /\ pc' = IF r.kind = "panic" THEN "panic" ELSE "ready"
        /\ curr_tuning_idx' = r.idx
        /\ ret' = [op |-> "update", time |-> time, from |-> curr_tuning_idx,
                   kind |-> r.kind, entry |-> r.entry, msg |-> r.msg]
        /\ returned' = IF r.kind = "Some" THEN Append(returned, r.entry)
                       ELSE returned
    /\ repeated' = (ret.op = "update" /\ ret.kind = "Some" /\ ret.time = time)
    /\ UNCHANGED <<input, tunings>>
    /\ UNCHANGED <<tdVars, playVars, fnVars>>

\* The caller of Tuner::new: any input list.
Construct == pc = "start" /\ \E in \in Inputs : New(in)

\* The caller of update: any time, in any order.
Query == pc = "ready" /\ \E time \in QueryTimes : Update(time)

Next == Construct \/ Query

Spec == Init /\ [][Next]_vars

(***************************************************************************)
(* TuningData::new as a state machine: the arguments are drawn at the      *)
(* start, one step calls the function.                                     *)
(***************************************************************************)

\* No Tuner is being looked at.
TunerIdle ==
    /\ pc = "idle"
    /\ input = <<>>
    /\ tunings = <<>>
    /\ curr_tuning_idx = -1
    /\ ret = NoCall
    /\ returned = <<>>
    /\ repeated = FALSE

TdInit ==
    /\ tdIn \in TdInputs
    /\ tdOut = TdNotRun
    /\ TunerIdle
    /\ PlayIdle
    /\ FnIdle

TdNew ==
    /\ tdOut = TdNotRun
    /\ tdOut' = TuningDataNew(tdIn.tuning, tdIn.time)
    /\ UNCHANGED <<tdIn, tunerVars, playVars, fnVars>>

TdNext == TdNew

TdSpec == TdInit /\ [][TdNext]_vars

(***************************************************************************)
(* main as a state machine.  The schedule, the track, the switches and the *)
(* send that fails are drawn at the start.  The Ctrl-C handler runs on its *)
(* own thread and shares only exit_flag with main, which reads it once per *)
(* event: a step of main is the code up to and including that read, or the *)
(* code from there to the end of the iteration.                            *)
(***************************************************************************)

\* The td(...) calls of the schedule, in order: the entries, or the first
\* panic.
RECURSIVE BuildEntries(_)
BuildEntries(as) ==
    IF as = <<>> THEN [kind |-> "ok", msg |-> "", tds |-> <<>>]
    ELSE LET first == BuildEntries(SubSeq(as, 1, Len(as) - 1))
             last  == TuningDataNew(as[Len(as)].tuning, as[Len(as)].time)
         IN  IF first.kind = "panic" THEN first
             ELSE IF last.kind = "panic"
             THEN [kind |-> "panic", msg |-> last.msg, tds |-> <<>>]
             ELSE [kind |-> "ok", msg |-> "", tds |-> Append(first.tds, last.td)]

\* ondine::TUNER, initialized at its first use: Tuner::new(vec![td(..), ..]).
BuildTuner(as) ==
    LET built == BuildEntries(as)
    IN  IF built.kind = "panic" THEN NewPanic(built.msg)
        ELSE TunerNew(built.tds)

PlayInit ==
    /\ \E run \in Runs :
            /\ args = run.args
            /\ TUNER = BuildTuner(run.args)
            /\ cfg = run.cfg
            /\ plan = run.plan
    /\ PlayStart
    /\ track \in Tracks
    /\ TunerIdle
    /\ TdIdle
    /\ FnIdle

\* A start that goes on to the first reset whatever the initializer of
\* TUNER did.
BootIgnoringPanic ==
    /\ ppc = "boot"
    /\ ppc' = "reset"
    /\ tuner' = [tunings |-> TUNER.tunings, curr_tuning_idx |-> -1]
    /\ UNCHANGED <<args, TUNER, track, cfg, plan, event_idx, curr_bpm,
                   expected_curr_time, start, curr_tuning, curr_monzos,
                   tuning_data, exit_flag, midi_conn, visualizer, warnings,
                   resets>>
    /\ UNCHANGED <<polls, dispatched_late>>
    /\ before' = Snapshot
    /\ UNCHANGED <<fell_behind, start_instant>>
    /\ UNCHANGED <<tunerVars, tdVars, fnVars>>

\* Initialization of the lazy statics.  What follows it, up to the first
\* reset, opens the sinks, installs the Ctrl-C handler and reads the file.
Boot ==
    /\ ppc = "boot"
    /\ LET r == TUNER IN
        /\ ppc' = IF r.kind = "ok" THEN "reset" ELSE "panic"
        /\ tuner' = [tunings |-> r.tunings, curr_tuning_idx |-> -1]
    /\ UNCHANGED <<args, TUNER, track, cfg, plan, event_idx, curr_bpm,
                   expected_curr_time, start, curr_tuning, curr_monzos,
                   tuning_data, exit_flag, midi_conn, visualizer, warnings,
                   resets>>
    /\ UNCHANGED <<polls, dispatched_late>>
    /\ before' = Snapshot
    /\ UNCHANGED <<fell_behind, start_instant>>
    /\ UNCHANGED <<tunerVars, tdVars, fnVars>>

\* The Ctrl-C handler: *exit_flag = true.
CtrlC ==
    /\ ppc \in {"reset", "poll", "event", "finish", "close"}
    /\ ~exit_flag
    /\ exit_flag' = TRUE
    /\ UNCHANGED <<ppc, args, TUNER, track, cfg, plan, tuner, event_idx, curr_bpm,
                   expected_curr_time, start, curr_tuning, curr_monzos,
                   tuning_data, midi_conn, visualizer, warnings, resets>>
    /\ UNCHANGED <<polls, dispatched_late, before, fell_behind, start_instant>>
    /\ UNCHANGED <<tunerVars, tdVars, fnVars>>

\* A loop that dispatches the next event without the top of its iteration.
LoopAtSkippingPoll(i) == IF i > Len(track) THEN "finish" ELSE "event"

\* for event in track.iter(): the loop goes on with event i, or is over.
LoopAt(i) == IF i > Len(track) THEN "finish" ELSE "poll"

\* reset(): the MIDI sends, then the two visualizer sends; every one of them
\* is unwrapped.
ResetSinks(midi, vis) ==
    LET m == SendAll(midi, "midi", plan, ResetMidiMessages)
        v == SendAll(vis, "vis", plan, ResetVisMessages)
    IN  IF m.failed THEN [midi |-> m, vis |-> vis, panic |-> TRUE]
        ELSE [midi |-> m, vis |-> v, panic |-> v.failed]

\* reset(&mut midi_conn, &mut broadcast_channel) before the loop.
ResetBefore ==
    /\ ppc = "reset"
    /\ LET r == ResetSinks(midi_conn, visualizer) IN
        /\ midi_conn' = r.midi
        /\ visualizer' = r.vis
        /\ ppc' = IF r.panic THEN "panic" ELSE LoopAt(1)
    /\ resets' = resets + 1
    /\ UNCHANGED <<args, TUNER, track, cfg, plan, tuner, event_idx, curr_bpm,
                   expected_curr_time, start, curr_tuning, curr_monzos,
                   tuning_data, exit_flag, warnings>>
    /\ UNCHANGED <<polls, dispatched_late>>
    /\ before' = Snapshot
    /\ UNCHANGED <<fell_behind, start_instant>>
    /\ UNCHANGED <<tunerVars, tdVars, fnVars>>

\* An end of main that closes the connection without a reset.
CloseWithoutReset ==
    /\ ppc = "finish"
    /\ ppc' = "close"
    /\ UNCHANGED <<args, TUNER, track, cfg, plan, tuner, event_idx, curr_bpm,
                   expected_curr_time, start, curr_tuning, curr_monzos,
                   tuning_data, exit_flag, midi_conn, visualizer, warnings,
                   resets, polls, dispatched_late>>
    /\ before' = Snapshot
    /\ UNCHANGED <<fell_behind, start_instant>>
    /\ UNCHANGED <<tunerVars, tdVars, fnVars>>

\* reset(...) after the loop.
ResetAfter ==
    /\ ppc = "finish"
    /\ LET r == ResetSinks(midi_conn, visualizer) IN
        /\ midi_conn' = r.midi
        /\ visualizer' = r.vis
        /\ ppc' = IF r.panic THEN "panic" ELSE "close"
    /\ resets' = resets + 1
    /\ UNCHANGED <<args, TUNER, track, cfg, plan, tuner, event_idx, curr_bpm,
                   expected_curr_time, start, curr_tuning, curr_monzos,
                   tuning_data, exit_flag, warnings>>
    /\ UNCHANGED <<polls, dispatched_late>>
    /\ before' = Snapshot
    /\ UNCHANGED <<fell_behind, start_instant>>
    /\ UNCHANGED <<tunerVars, tdVars, fnVars>>

\* midi_conn.close(); exit(0)
Close ==
    /\ ppc = "close"
    /\ ppc' = "closed"
    /\ UNCHANGED <<args, TUNER, track, cfg, plan, tuner, event_idx, curr_bpm,
                   expected_curr_time, start, curr_tuning, curr_monzos,
                   tuning_data, exit_flag, midi_conn, visualizer, warnings,
                   resets>>
    /\ UNCHANGED <<polls, dispatched_late>>
    /\ before' = Snapshot
    /\ UNCHANGED <<fell_behind, start_instant>>
    /\ UNCHANGED <<tunerVars, tdVars, fnVars>>

RECURSIVE Gcd(_, _)
Gcd(a, b) == IF b = 0 THEN a ELSE Gcd(b, a % b)

\* A tempo read as if it were in milliseconds per quarter note.
BpmOfTempoInMillis(tempo) ==
    LET g == Gcd(60000, tempo) IN <<60000 \div g, tempo \div g>>

\* curr_bpm = 60_000_000f64 / (tempo.as_int() as f64), as a fraction.
BpmOfTempo(tempo) ==
    LET g == Gcd(60000000, tempo) IN <<60000000 \div g, tempo \div g>>

\* A conversion that takes the tempo of the event at hand, when it is a
\* tempo event, for its own delta.
AdvanceAtOwnTempo(time, delta, bpm) ==
    LET ev  == track[event_idx]
        own == IF ev.kind = "Tempo" THEN BpmOfTempo(ev.a) ELSE bpm
    IN  time + (delta * 60 * 1000 * own[2]) \div (PPQN * own[1])

\* expected_curr_time += delta_crochets * (60f64 / curr_bpm), in
\* milliseconds.
Advance(time, delta, bpm) == time + (delta * 60 * 1000 * bpm[2]) \div (PPQN * bpm[1])

\* A cache that takes every class of the entry, the sentinel too.
MemoizeTuningAll(cache, td) == td.tuning

\* if *ratio != Rational::zero() { curr_tuning[i] = *ratio; }
MemoizeTuning(cache, td) ==
    [i \in Classes |-> IF IsZero(td.tuning[i]) THEN cache[i] ELSE td.tuning[i]]

\* A monzo cache that takes the entry's value for every class, the empty
\* vector where the entry has none.
MemoizeMonzosAll(cache, td) ==
    [i \in Classes |-> IF IsSome(td.monzos[i]) THEN td.monzos[i][1] ELSE << >>]

\* if let Some(monzo) = monzo { curr_monzos[i] = monzo.clone(); }
MemoizeMonzos(cache, td) ==
    [i \in Classes |-> IF IsSome(td.monzos[i]) THEN td.monzos[i][1] ELSE cache[i]]

\* The messages of tuning_data.midi_messages that are Some, in class order.
BendsOf(td) ==
    LET all == [i \in 1 .. NumClasses |-> td.midi_messages[i - 1]]
        sel == SelectSeq(all, LAMBDA m : IsSome(m))
    IN  [j \in 1 .. Len(sel) |-> sel[j][1]]

\* A loop that goes on whatever the flag is.
AfterPollIgnoringFlag(flag) == "event"

\* if *exit_flag { break; }
AfterPoll(flag) == IF flag THEN "finish" ELSE "event"

\* The top of an iteration (main.rs 179-204): the expected time of the
\* event, tuner.update, the cache, and the read of exit_flag.
Poll ==
    /\ ppc = "poll"
    /\ LET ev   == track[event_idx]
           time == Advance(expected_curr_time, ev.delta, curr_bpm)
           r    == TunerUpdate(tuner.tunings, tuner.curr_tuning_idx, time)
           td   == tuner.tunings[r.entry + 1]
       IN
        /\ expected_curr_time' = time
        /\ tuner' = [tuner EXCEPT !.curr_tuning_idx = r.idx]
        /\ tuning_data' = IF r.kind = "Some" THEN OptSome(td) ELSE OptNone
        /\ curr_tuning' = IF r.kind = "Some" THEN MemoizeTuning(curr_tuning, td)
                          ELSE curr_tuning
        /\ curr_monzos' = IF r.kind = "Some" THEN MemoizeMonzos(curr_monzos, td)
                          ELSE curr_monzos
        /\ ppc' = IF r.kind = "panic" THEN "panic" ELSE AfterPoll(exit_flag)
    /\ UNCHANGED <<args, TUNER, track, cfg, plan, event_idx, curr_bpm, start,
                   exit_flag, midi_conn, visualizer, warnings, resets>>
    /\ polls' = IF ppc' = "panic" THEN polls ELSE polls + 1
    /\ UNCHANGED dispatched_late
    /\ before' = Snapshot
    /\ UNCHANGED <<fell_behind, start_instant>>
    /\ UNCHANGED <<tunerVars, tdVars, fnVars>>

\* A start that any event at or after START_FROM triggers.
StartedAtAnyEvent(ev) == start \/ expected_curr_time >= cfg.start_from

\* start = Some(Instant::now()) at the first MIDI event at or after
\* START_FROM.
Started(ev) == start \/ (expected_curr_time >= cfg.start_from /\ IsMidiEvent(ev))

\* start = Some(Instant::now()) is run only while start.is_none().
StartInstant(started) ==
    IF started /\ ~start THEN event_idx ELSE start_instant

\* The remainder that takes the sign of the dividend, then `as u8`.
ChannelOfTruncating(key) ==
    IF key >= A4 THEN (key - A4) % NumClasses
    ELSE (256 - ((A4 - key) % NumClasses)) % 256

\* edosteps_from_a4.rem_euclid(12) as u8
ChannelOf(key) == (key - A4) % NumClasses

\* (key.as_int() + 3) as usize % 12
SemitoneMod12(key) == (key + 3) % NumClasses

\* An octave count rounded toward zero: edosteps_from_a4 / 12.
NoteMonzoTruncating(monzos, key) ==
    LET monzo == monzos[SemitoneMod12(key)]
        d == key - A4
        octaves_from_a4 == IF d >= 0 THEN d \div NumClasses
                           ELSE 0 - ((0 - d) \div NumClasses)
    IN  IF Len(monzo) = 0 THEN <<octaves_from_a4>>
        ELSE [monzo EXCEPT ![1] = monzo[1] + octaves_from_a4]

\* The monzo of a note-on: the cached monzo of its class with the octaves
\* from A4 added to its first element.
NoteMonzo(monzos, key) ==
    LET monzo == monzos[SemitoneMod12(key)]
        octaves_from_a4 == (key - A4) \div NumClasses
    IN  IF Len(monzo) = 0 THEN <<octaves_from_a4>>
        ELSE [monzo EXCEPT ![1] = monzo[1] + octaves_from_a4]

\* A match that forwards the notes whether playback has started or not.
EventMidiMessagesUnstarted(ev, started) ==
    CASE ev.kind = "NoteOn" /\ cfg.midi ->
            << NoteOnMessage(ChannelOf(ev.a), ev.a, ev.b) >>
      [] ev.kind = "NoteOff" /\ cfg.midi ->
            << NoteOffMessage(ChannelOf(ev.a), ev.a, ev.b) >>
      [] ev.kind = "Controller" -> << CcMessage(0, ev.a, ev.b) >>
      [] OTHER -> << >>

\* What the match on event.kind sends to the MIDI sink.
EventMidiMessages(ev, started) ==
    CASE ev.kind = "NoteOn" /\ started /\ cfg.midi ->
            << NoteOnMessage(ChannelOf(ev.a), ev.a, ev.b) >>
      [] ev.kind = "NoteOff" /\ started /\ cfg.midi ->
            << NoteOffMessage(ChannelOf(ev.a), ev.a, ev.b) >>
      [] ev.kind = "Controller" -> << CcMessage(0, ev.a, ev.b) >>
      [] OTHER -> << >>

\* A match that holds the controller changes back, like the notes, until
\* playback has started.
EventVisMessagesStartedOnly(ev, started) ==
    CASE ev.kind = "NoteOn" /\ started /\ cfg.vis ->
            << VisNoteOn(ev.a - A4, ev.b, NoteMonzo(curr_monzos, ev.a)) >>
      [] ev.kind = "NoteOff" /\ started /\ cfg.vis ->
            << VisNoteOff(ev.a - A4, ev.b) >>
      [] ev.kind = "Controller" /\ started -> << VisCc(ev.a, ev.b) >>
      [] OTHER -> << >>

\* What it sends to the visualizer sink.
EventVisMessages(ev, started) ==
    CASE ev.kind = "NoteOn" /\ started /\ cfg.vis ->
            << VisNoteOn(ev.a - A4, ev.b, NoteMonzo(curr_monzos, ev.a)) >>
      [] ev.kind = "NoteOff" /\ started /\ cfg.vis ->
            << VisNoteOff(ev.a - A4, ev.b) >>
      [] ev.kind = "Controller" -> << VisCc(ev.a, ev.b) >>
      [] OTHER -> << >>

\* A note-on arm that adds the octaves to the cached vector itself.
MonzosAfterNoteInPlace(monzos, ev, started) ==
    IF ev.kind = "NoteOn" /\ started
    THEN [monzos EXCEPT ![SemitoneMod12(ev.a)] = NoteMonzo(monzos, ev.a)]
    ELSE monzos

\* let mut monzo = curr_monzos[semitone_mod12].clone(): the octaves are added
\* to the clone, and curr_monzos is as it was.
MonzosAfterNote(monzos, ev, started) == monzos

\* The pitch bends of the entry update returned, if it returned one.
ActivationBends == IF IsSome(tuning_data) THEN BendsOf(tuning_data[1]) ELSE << >>

\* The wall clock against the expected time of the event (main.rs 217-226):
\* once playback has started the loop sleeps until the event is due (FALSE)
\* or, when the clock is more than 1 ms past it, prints the warning (TRUE).
\* How long the steps before took is for the machine to choose.
Lateness(started) == IF started THEN BOOLEAN ELSE {FALSE}

\* The rest of an iteration (main.rs 206-399) for the event ev: the start of
\* playback, the clock (behind: the warning was printed), the pitch bends of
\* a new tuning and the messages of the event itself.  A MIDI send that
\* fails aborts; a visualizer send that fails is logged.
Iteration(ev, started, behind, midi_msgs, vis_msgs) ==
    /\ LET m == SendAll(midi_conn, "midi", plan, midi_msgs)
           v == SendAll(visualizer, "vis", plan, vis_msgs)
       IN
        /\ start' = started
        /\ start_instant' = StartInstant(started)
        /\ fell_behind' = behind
        /\ midi_conn' = m
        /\ visualizer' = IF m.failed THEN visualizer ELSE Sink(v.log, v.sends, FALSE)
        /\ warnings' = IF ~m.failed /\ v.failed THEN warnings + 1 ELSE warnings
        /\ curr_bpm' = IF ev.kind = "Tempo" /\ ~m.failed THEN BpmOfTempo(ev.a)
                       ELSE curr_bpm
        /\ ppc' = IF m.failed THEN "panic" ELSE LoopAt(event_idx + 1)
        /\ event_idx' = IF m.failed THEN event_idx ELSE event_idx + 1
        /\ curr_monzos' = MonzosAfterNote(curr_monzos, ev, started)
    /\ UNCHANGED <<args, TUNER, track, cfg, plan, tuner, expected_curr_time,
                   curr_tuning, tuning_data, exit_flag, resets>>
    /\ dispatched_late' = IF exit_flag /\ ppc' # "panic"
                          THEN dispatched_late + 1 ELSE dispatched_late
    /\ UNCHANGED polls
    /\ before' = Snapshot
    /\ UNCHANGED <<tunerVars, tdVars, fnVars>>

\* A loop that catches up when it has fallen behind: the bends and the
\* messages of a late event are dropped.
DispatchDroppingLate ==
    /\ ppc = "event"
    /\ LET ev      == track[event_idx]
           started == Started(ev)
       IN  \E behind \in Lateness(started) :
            Iteration(ev, started, behind,
                      IF behind THEN << >>
                      ELSE ActivationBends \o EventMidiMessages(ev, started),
                      IF behind THEN << >> ELSE EventVisMessages(ev, started))

\* An iteration that sends the event's own message before the bends of the
\* entry activated at it.
DispatchEventFirst ==
    /\ ppc = "event"
    /\ LET ev      == track[event_idx]
           started == Started(ev)
       IN  \E behind \in Lateness(started) :
            Iteration(ev, started, behind,
                      EventMidiMessages(ev, started) \o ActivationBends,
                      EventVisMessages(ev, started))

\* The rest of an iteration, early, on time or late.
Dispatch ==
    /\ ppc = "event"
    /\ LET ev      == track[event_idx]
           started == Started(ev)
       IN  \E behind \in Lateness(started) :
            Iteration(ev, started, behind,
                      ActivationBends \o EventMidiMessages(ev, started),
                      EventVisMessages(ev, started))

PlayNext == Boot \/ CtrlC \/ ResetBefore \/ Poll \/ Dispatch \/ ResetAfter \/ Close

PlaySpec == PlayInit /\ [][PlayNext]_vars

(***************************************************************************)
(* The arithmetic of the loop and of the schedule as functions: the        *)
(* arguments of one call are drawn at the start, one step makes the call.  *)
(***************************************************************************)

\* A tempo event (microseconds per quarter note: 240, 150, 120, 60 BPM) and
\* the delta of the event after it.
IncrementArgs ==
    {<<tempo, delta>> : tempo \in {250000, 400000, 500000, 1000000},
                        delta \in 0 .. 2 * PPQN}

\* curr_monzos, as initialized and after bar 0 of the Ondine schedule, and
\* the key (u7) of a note-on.
NoteMonzoArgs ==
    {<<monzos, key>> :
        monzos \in {DummyMonzos, [i \in Classes |-> Monzo(TuningBar0[i])[1]]},
        key \in 0 .. 127}

\* Largest numerator and denominator of the small ratios monzo() is tried on.
MaxTerm == 16

\* The receiver of monzo(): the sentinel, the ratios in lowest terms of small
\* terms, two commas, and ratios with the 1001st prime, which PRIMES lacks.
MonzoArgs ==
    {<<n, d>> \in (1 .. MaxTerm) \X (1 .. MaxTerm) : Gcd(n, d) = 1}
    \cup {RationalZero, <<81, 80>>, <<32805, 32768>>, <<7927, 4096>>, <<4096, 7927>>}

\* The tuning arrays of the first two td(...) calls of the Ondine schedule,
\* relative to the root.
RootedBar0 ==
    LET s == << <<1, 1>>, <<17, 16>>, <<9, 8>>,  <<19, 16>>,
                <<5, 4>>, <<4, 3>>,   <<11, 8>>, <<3, 2>>,
                <<13, 8>>, <<5, 3>>,  <<7, 4>>,  <<15, 8>> >>
    IN  [i \in Classes |-> s[i + 1]]

RootedBar5 ==
    [i \in Classes |-> CASE i = 1 -> <<25, 24>>
                         [] i = 7 -> <<35, 24>>
                         [] OTHER -> RationalZero]

\* Arguments of td: the roots a u8 may hold around the limit, offsets of
\* none, a major third (as the schedule has it) and a comma.
TdArgs ==
    [time : {0}, root : 0 .. 13,
     offset : {<<1, 1>>, <<5, 4>>, <<81, 80>>},
     tuning : {RootedBar0, RootedBar5}]

\* Rational * Rational, in lowest terms.
RatMul(a, b) ==
    LET n == a[1] * b[1]
        d == a[2] * b[2]
        g == Gcd(n, d)
    IN  <<n \div g, d \div g>>

\* A wrap around the octave that leaves the interval as it is.
RatUnchanged(a) == a

\* new_tuning[semitone % 12] /= 2
RatHalve(a) == RatMul(a, <<1, 2>>)

\* for i in 0..12 of td, from i on: new_tuning, and for every position the
\* number of values of i that assigned it.
RECURSIVE TdLoop(_, _, _, _, _)
TdLoop(i, root, offset, tuning, acc) ==
    IF i > NumClasses - 1 THEN acc
    ELSE LET semitone == i + root
             at       == semitone % NumClasses
             scaled   == RatMul(tuning[i], offset)
             value    == IF semitone >= NumClasses THEN RatHalve(scaled) ELSE scaled
         IN  TdLoop(i + 1, root, offset, tuning,
                    [new_tuning |-> [acc.new_tuning EXCEPT ![at] = value],
                     writes     |-> [acc.writes EXCEPT ![at] = @ + 1]])

\* let mut new_tuning = [Rational::from(0); 12]
TdLoopStart ==
    [new_tuning |-> [i \in Classes |-> RationalZero], writes |-> [i \in Classes |-> 0]]

\* td(time, root, offset, tuning)
Td(time, root, offset, tuning) ==
    IF ~(root < NumClasses) THEN TdPanic("Root must be in range [0, 11]")
    ELSE TuningDataNew(TdLoop(0, root, offset, tuning, TdLoopStart).new_tuning, time)

\* What the Tempo arm and the top of the next iteration compute: curr_bpm,
\* and the expected time added for the next event.
Increment(tempo, delta) ==
    [bpm |-> BpmOfTempo(tempo), time |-> Advance(0, delta, BpmOfTempo(tempo))]

CallIncrement ==
    /\ call.fn = "increment"
    /\ result = NotCalled
    /\ result' = [kind |-> "ok", value |-> Increment(call.args[1], call.args[2])]
    /\ UNCHANGED <<call, tunerVars, tdVars, playVars>>

\* The NoteOn arm for one key: the channel of send_note_on, the class of the
\* cache lookup and the monzo sent to the visualizer.
CallNoteMonzo ==
    /\ call.fn = "note_monzo"
    /\ result = NotCalled
    /\ result' = [kind    |-> "ok",
                  value   |-> NoteMonzo(call.args[1], call.args[2]),
                  channel |-> ChannelOf(call.args[2]),
                  class   |-> SemitoneMod12(call.args[2])]
    /\ UNCHANGED <<call, tunerVars, tdVars, playVars>>

\* self.monzo(), or the panic of an expect in it.
CallMonzo ==
    /\ call.fn = "monzo"
    /\ result = NotCalled
    /\ result' = IF MonzoPanics(call.args)
                  THEN [kind |-> "panic", value |-> "Prime not found in PRIMES map"]
                  ELSE [kind |-> "ok", value |-> Monzo(call.args)]
    /\ UNCHANGED <<call, tunerVars, tdVars, playVars>>

\* td(...): what it returns or its panic, and what its loop did.
CallTd ==
    /\ call.fn = "td"
    /\ result = NotCalled
    /\ LET a == call.args
           r == Td(a.time, a.root, a.offset, a.tuning)
       IN  result' = [kind  |-> r.kind,
                      value |-> r,
                      loop  |-> IF a.root < NumClasses
                                THEN TdLoop(0, a.root, a.offset, a.tuning, TdLoopStart)
                                ELSE TdLoopStart]
    /\ UNCHANGED <<call, tunerVars, tdVars, playVars>>

FnInit ==
    /\ \/ \E a \in IncrementArgs : call = [fn |-> "increment", args |-> a]
       \/ \E a \in TdArgs : call = [fn |-> "td", args |-> a]
       \/ \E a \in MonzoArgs : call = [fn |-> "monzo", args |-> a]
       \/ \E a \in NoteMonzoArgs : call = [fn |-> "note_monzo", args |-> a]
    /\ result = NotCalled
    /\ TunerIdle
    /\ TdIdle
    /\ PlayIdle

FnNext == CallIncrement \/ CallNoteMonzo \/ CallMonzo \/ CallTd

FnSpec == FnInit /\ [][FnNext]_vars

(***************************************************************************)
(* Properties of Tuner::update and Tuner::new.                             *)
(*                                                                         *)
(* ret.from is the cursor before the last call and ret.time its argument,  *)
(* so each property below relates the state before a call to the result    *)
(* and the state after it.                                                 *)
(***************************************************************************)

\* A Tuner has been built (and perhaps queried since).
Constructed == pc = "ready" \/ ret.op = "update"

\* The last call was update and it returned normally.
Returned == ret.op = "update" /\ pc = "ready"

\* The 0-based schedule entry i.
Entry(i) == tunings[i + 1]

LastIdx == Len(tunings) - 1

\* C1: update called with the cursor at -1 and a time >= the first entry's
\* time returns entry 0 and leaves the cursor at 0.
C1_FirstActivation ==
    (ret.op = "update" /\ ret.from = -1 /\ ret.time >= Entry(0).time)
        => (Returned /\ ret.kind = "Some" /\ ret.entry = 0 /\ curr_tuning_idx = 0)

C1_Witness ==
    /\ ret.op = "update" /\ ret.from = -1
    /\ ret.time > Entry(0).time
    /\ curr_tuning_idx = 0

\* C2: update called with the cursor at -1 and a time strictly earlier than
\* the first entry's time returns None without an error and leaves the cursor
\* at -1.
C2_BeforeFirstIsNoChange ==
    (ret.op = "update" /\ ret.from = -1 /\ ret.time < Entry(0).time)
        => (Returned /\ ret.kind = "None" /\ curr_tuning_idx = -1)

\* C3: with the cursor at c >= 0, c not the last index, update(t) with
\* t >= the time of entry c+1 returns entry c+1 and moves the cursor to c+1,
\* also when t has reached entries beyond c+1.
C3_SingleStep ==
    (/\ ret.op = "update"
     /\ ret.from >= 0 /\ ret.from < LastIdx
     /\ ret.time >= Entry(ret.from + 1).time)
        => (/\ Returned /\ ret.kind = "Some"
            /\ ret.entry = ret.from + 1
            /\ curr_tuning_idx = ret.from + 1)

\* The call's time had also passed an entry later than c+1.
C3_Witness ==
    /\ ret.op = "update"
    /\ ret.from >= 0 /\ ret.from + 2 <= LastIdx
    /\ Entry(ret.from + 2).time > Entry(ret.from + 1).time
    /\ ret.time >= Entry(ret.from + 2).time
    /\ curr_tuning_idx = ret.from + 1

\* C4: with the cursor at any c >= 0, the last index included, update(t) with
\* t earlier than entry c's time is a fatal error.
C4_RegressionIsFatal ==
    (ret.op = "update" /\ ret.from >= 0 /\ ret.time < Entry(ret.from).time)
        => (pc = "panic" /\ ret.kind = "panic")

\* C5 (as claimed): when update(t) returned an entry, the immediately
\* repeated update(t) returns None.
C5_RepeatIsNoChange ==
    repeated => (Returned /\ ret.kind = "None")

\* C5 (amended): when update(t) returned entry i, the immediately repeated
\* update(t) returns None and leaves the cursor at i, provided i is the last
\* entry or t is earlier than entry i+1's time.
C5_RepeatIsNoChangeBelowNext ==
    (repeated /\ (ret.from = LastIdx \/ ret.time < Entry(ret.from + 1).time))
        => (Returned /\ ret.kind = "None" /\ curr_tuning_idx = ret.from)

C5_Witness ==
    /\ repeated
    /\ ret.from < LastIdx
    /\ ret.time < Entry(ret.from + 1).time
    /\ ret.kind = "None"

\* C6: the cursor stays within [-1, len-1], a call to update leaves it or
\* advances it by one (never decreases it), and the entries returned so far
\* are exactly 0, 1, ..., cursor, in that order.
C6_CursorMonotone ==
    /\ curr_tuning_idx >= -1
    /\ curr_tuning_idx <= LastIdx
    /\ ret.op = "update" => curr_tuning_idx \in {ret.from, ret.from + 1}
    /\ returned = [i \in 1 .. (curr_tuning_idx + 1) |-> i - 1]

C6_Witness ==
    /\ Len(tunings) >= 3
    /\ curr_tuning_idx = LastIdx
    /\ returned = <<0, 1, 2>>

\* C7: with the cursor at c >= 0, update(t) returns None and leaves the
\* cursor at c when c is the last index, or when t lies between the time of
\* entry c (inclusive) and the time of entry c+1 (exclusive).
C7_NoBoundaryNoChange ==
    (/\ ret.op = "update"
     /\ ret.from >= 0
     /\ \/ ret.from = LastIdx
        \/ Entry(ret.from).time <= ret.time /\ ret.time < Entry(ret.from + 1).time)
        => (Returned /\ ret.kind = "None" /\ curr_tuning_idx = ret.from)

C7_Witness ==
    /\ ret.op = "update"
    /\ ret.from >= 0 /\ ret.from < LastIdx
    /\ Entry(ret.from).time < ret.time /\ ret.time < Entry(ret.from + 1).time
    /\ curr_tuning_idx = ret.from

\* C8: the entry at index 0 of every schedule Tuner::new constructs contains
\* no sentinel.
C8_FirstEntryNoSentinel ==
    Constructed => ~HasSentinel(Entry(0))

\* Non-decreasing activation times.
SortedByTime(s) == \A i \in 1 .. (Len(s) - 1) : s[i].time <= s[i + 1].time

\* The same entries, each as many times.
SameMultiset(s, t) ==
    /\ Len(s) = Len(t)
    /\ \A i \in 1 .. Len(s) :
        Cardinality({j \in 1 .. Len(s) : s[j] = s[i]})
            = Cardinality({j \in 1 .. Len(t) : t[j] = s[i]})

\* C9: an input that is non-empty, has no sentinel in its first entry and no
\* negative time is never rejected, sorted or not; every constructed schedule
\* is in non-decreasing order of time and holds exactly the input entries.
C9_SortedPermutation ==
    /\ (/\ ret.op = "new"
        /\ input # <<>>
        /\ ~HasSentinel(input[1])
        /\ \A i \in 1 .. Len(input) : input[i].time >= 0) => pc = "ready"
    /\ Constructed => (SortedByTime(tunings) /\ SameMultiset(input, tunings))

\* A schedule built from an input that was out of order, with two entries at
\* the same time.
C9_Witness ==
    /\ Constructed
    /\ ~SortedByTime(input)
    /\ \E i \in 1 .. (Len(input) - 1) : input[i].time = input[i + 1].time

\* C10: Tuner::new on the empty list ends in a fatal error, and no
\* constructed schedule has length 0.
C10_EmptyRejected ==
    /\ (ret.op = "new" /\ input = <<>>) => (pc = "panic" /\ ret.kind = "panic")
    /\ Constructed => Len(tunings) >= 1

C10_Witness ==
    /\ ret.op = "new"
    /\ input = <<>>
    /\ ret.msg = "Must have at least one tuning!"

\* C11: every entry of a constructed schedule has a time >= 0: an input with
\* a negative time anywhere in the list is rejected.
C11_NoNegativeTime ==
    Constructed => \A i \in 1 .. Len(tunings) : tunings[i].time >= 0

(***************************************************************************)
(* Properties of TuningData::new.                                          *)
(***************************************************************************)

\* The interval x lies more than k semitones of 12-tone equal temperament
\* above 1/1: x^12 > 2^k.
MoreThanSemitones(x, k) ==
    BigLess(BigTimesPow(BigTimesPow(<<1>>, x[2], 12), 2, Max0(k)),
            BigTimesPow(BigTimesPow(<<1>>, x[1], 12), 2, Max0(-k)))

\* The interval x lies less than k semitones above 1/1: x^12 < 2^k.
LessThanSemitones(x, k) ==
    BigLess(BigTimesPow(BigTimesPow(<<1>>, x[1], 12), 2, Max0(-k)),
            BigTimesPow(BigTimesPow(<<1>>, x[2], 12), 2, Max0(k)))

\* The normalized offset of interval x at class i is outside [-1, 1]: x is
\* more than PB_RANGE semitones away from the reference of i semitones.
OffsetOutside(x, i) ==
    MoreThanSemitones(x, i + 4) \/ LessThanSemitones(x, i - 4)

\* C12: TuningData::new fails exactly when some non-sentinel class has a
\* normalized offset outside [-1, 1]; in particular 2/1 at class 8 (offset
\* exactly +1.0) and 1/1 at class 4 (exactly -1.0) are accepted, and nothing
\* out of range is constructed.
C12_RangeCheckIsFatal ==
    tdOut # TdNotRun =>
        (tdOut.kind = "panic" <=>
            \E i \in Classes : /\ ~IsZero(tdIn.tuning[i])
                               /\ OffsetOutside(tdIn.tuning[i], i))

\* The offset of exactly +PB_RANGE semitones, accepted.
C12_Witness ==
    /\ tdOut.kind = "ok"
    /\ tdIn.tuning[8] = <<2, 1>>
    /\ ~MoreThanSemitones(<<2, 1>>, 8 + 4) /\ ~LessThanSemitones(<<2, 1>>, 8 + 4)

\* C13: in a constructed TuningData, for every class the monzo, the bend and
\* the bend message are absent when the interval is the sentinel and present
\* otherwise, and the message of class i is addressed to channel i.
C13_DerivedFieldsMatchSentinel ==
    tdOut.kind = "ok" =>
        \A i \in Classes :
            LET td == tdOut.td IN
            /\ td.tuning = tdIn.tuning
            /\ IsSome(td.monzos[i]) <=> ~IsZero(td.tuning[i])
            /\ IsSome(td.pitch_bends[i]) <=> ~IsZero(td.tuning[i])
            /\ IsSome(td.midi_messages[i]) <=> ~IsZero(td.tuning[i])
            /\ IsSome(td.midi_messages[i]) => td.midi_messages[i][1].channel = i

C13_Witness ==
    /\ tdOut.kind = "ok"
    /\ IsZero(tdOut.td.tuning[0]) /\ tdOut.td.midi_messages[0] = OptNone
    /\ ~IsZero(tdOut.td.tuning[5]) /\ IsSome(tdOut.td.midi_messages[5])


(***************************************************************************)
(* Properties of the playback loop (PlaySpec).  `before` is the state the  *)
(* last step of main started from, so each property below relates the     *)
(* state before a step to the state after it.                              *)
(***************************************************************************)

\* The last step of main started where main was at `at`.
LastStepFrom(at) == before.ppc = at

\* The messages the last step of main added to the sinks.
AddedMidi == SubSeq(midi_conn.log, before.midi + 1, Len(midi_conn.log))

AddedVis == SubSeq(visualizer.log, before.vis + 1, Len(visualizer.log))

IsBend(msg) == msg.type = "PitchBend"

\* The last step of main was tuner.update returning an entry (an
\* activation).
Activated == LastStepFrom("poll") /\ ppc # "panic" /\ IsSome(tuning_data)

\* The last step of main dispatched the event at which an entry was
\* activated.
DispatchedOnActivation == LastStepFrom("event") /\ IsSome(tuning_data)

\* C14: when an entry activates, every class that is the sentinel in the
\* entry keeps its cached tuning and monzo and gets no bend message on its
\* channel; every other class has its cache overwritten with the entry's
\* interval and monzo.
C14_SentinelKeepsCache ==
    /\ Activated =>
        LET td == tuning_data[1] IN
        \A c \in Classes :
            IF IsZero(td.tuning[c])
            THEN /\ curr_tuning[c] = before.curr_tuning[c]
                 /\ curr_monzos[c] = before.curr_monzos[c]
            ELSE /\ curr_tuning[c] = td.tuning[c]
                 /\ curr_monzos[c] = td.monzos[c][1]
    /\ DispatchedOnActivation =>
        LET td == tuning_data[1] IN
        \A c \in Classes : \A k \in 1 .. Len(AddedMidi) :
            IsZero(td.tuning[c]) =>
                ~(IsBend(AddedMidi[k]) /\ AddedMidi[k].channel = c)

\* The second entry of the Ondine schedule was activated and its event
\* dispatched: classes 5 and 11 are retuned, class 0 keeps the first entry's
\* interval, and the two MIDI messages of the step are the bends of 5 and 11.
C14_Witness ==
    /\ DispatchedOnActivation
    /\ tuning_data[1].tuning = TuningBar5
    /\ curr_tuning[0] = TuningBar0[0]
    /\ curr_tuning[5] = TuningBar5[5]
    /\ curr_monzos[5] = Monzo(TuningBar5[5])[1]
    /\ AddedMidi = << BendMessage(5, PitchBendOf(TuningBar5[5], 5)),
                      BendMessage(11, PitchBendOf(TuningBar5[11], 11)) >>

\* VisualizerMessage has no variant for a tuning: a message that is none of
\* its three variants would be one.
IsTuningUpdate(msg) == msg.type \notin {"NoteOn", "NoteOff", "CC"}

\* The last step of main dispatched, to its end, the event at which an
\* entry was activated.
DispatchedActivation == DispatchedOnActivation /\ ppc # "panic"

\* The bend messages among msgs are those of the non-sentinel classes of td,
\* one each, in class order, each on the channel of its class, and they come
\* before every other message of msgs.
BendsOfEntryFirst(msgs, td) ==
    LET bends == SelectSeq(msgs, IsBend) IN
    /\ Len(bends) = Cardinality({c \in Classes : ~IsZero(td.tuning[c])})
    /\ \A c \in Classes :
        ~IsZero(td.tuning[c]) =>
            \E k \in 1 .. Len(bends) :
                /\ bends[k].channel = c
                /\ bends[k].bend = PitchBendOf(td.tuning[c], c)
    /\ \A k \in 1 .. Len(bends) :
        /\ msgs[k] = bends[k]
        /\ k > 1 => bends[k - 1].channel < bends[k].channel

\* C15 as stated: when the event of an activation is dispatched, the bend
\* messages of the entry's non-sentinel classes go to the MIDI sink and a
\* tuning update goes to the visualizer sink.
C15_BendsAndVisualizerUpdate ==
    DispatchedActivation =>
        /\ BendsOfEntryFirst(AddedMidi, tuning_data[1])
        /\ \E k \in 1 .. Len(AddedVis) : IsTuningUpdate(AddedVis[k])

\* C15, amended: when the event of an activation is dispatched, the bend
\* messages of the entry's non-sentinel classes go to the MIDI sink, in
\* class order and before the event's own message; the visualizer sink gets
\* no tuning update, only the event's own message if it has one.
C15_BendsToMidiOnly ==
    DispatchedActivation =>
        /\ BendsOfEntryFirst(AddedMidi, tuning_data[1])
        /\ Len(AddedVis) <= 1
        /\ \A k \in 1 .. Len(AddedVis) : ~IsTuningUpdate(AddedVis[k])

\* The first entry of the Ondine schedule was activated at a track-name
\* event, which was dispatched: 12 bends followed the 48 messages of the
\* reset on the MIDI sink, and the visualizer has only the 2 of the reset.
C15_Witness ==
    /\ DispatchedActivation
    /\ event_idx = 2
    /\ track[1].kind = "TrackName"
    /\ tuning_data[1].tuning = TuningBar0
    /\ Len(AddedMidi) = NumClasses
    /\ \A k \in 1 .. NumClasses : IsBend(AddedMidi[k])
    /\ visualizer.log = ResetVisMessages

\* The last step of main was the top of an iteration finding exit_flag set.
ObservedCancel == LastStepFrom("poll") /\ before.exit_flag /\ ppc # "panic"

\* The last step of main started after the loop had been left at an event of
\* the track, that is after cancellation had been observed at it.
AfterCancel ==
    before.ppc \in {"finish", "close"} /\ before.event_idx <= Len(track)

\* What the last step of main added to a sink is nothing, or, when the step
\* was the reset after the loop, the first messages of the reset sequence.
OnlyReset(sent, reset_messages) ==
    \/ sent = << >>
    \/ /\ LastStepFrom("finish")
       /\ Len(sent) <= Len(reset_messages)
       /\ sent = SubSeq(reset_messages, 1, Len(sent))

\* C16: the iteration that finds the flag set sends nothing and leaves the
\* loop; from then on no event is polled or dispatched, and the only
\* messages either sink gets are those of the reset sequence.
C16_NothingAfterCancel ==
    /\ ObservedCancel =>
        /\ ppc = "finish"
        /\ AddedMidi = << >> /\ AddedVis = << >>
    /\ AfterCancel =>
        /\ ppc \notin {"poll", "event"}
        /\ event_idx = before.event_idx
        /\ OnlyReset(AddedMidi, ResetMidiMessages)
        /\ OnlyReset(AddedVis, ResetVisMessages)

\* Cancellation was observed at the first event, a note-on at which the
\* first entry activated, and the run is over: both sinks hold the two
\* reset sequences and nothing else.
C16_Witness ==
    /\ ppc = "closed"
    /\ exit_flag
    /\ event_idx = 1
    /\ Len(track) >= 1 /\ track[1].kind = "NoteOn"
    /\ IsSome(tuning_data)
    /\ midi_conn.log = ResetMidiMessages \o ResetMidiMessages
    /\ visualizer.log = ResetVisMessages \o ResetVisMessages

\* What a dispatch sends to the visualizer, whose failed send is logged:
\* all of msgs, or nothing when the one message failed.
AllOrLogged(sent, msgs) ==
    \/ sent = msgs /\ warnings = before.warnings
    \/ /\ warnings = before.warnings + 1
       /\ Len(msgs) = 1 /\ sent = << >>

\* C17: whatever the Ctrl-C handler does and whenever, (a) the flag has
\* been read once for every event begun; (b) once its poll has seen the
\* flag clear, the next step of main dispatches the whole event (its bends
\* and its own messages), flag set meanwhile or not, unless a MIDI send
\* fails; (c) the flag is never cleared and at most one event is dispatched
\* while it is set.
C17_PollOncePerEvent ==
    /\ ppc = "event" => polls = event_idx /\ ~before.exit_flag
    /\ ppc = "poll" => polls = event_idx - 1
    /\ (LastStepFrom("event") /\ ppc # "panic") =>
        LET ev == track[before.event_idx] IN
        /\ event_idx = before.event_idx + 1
        /\ AddedMidi = ActivationBends \o EventMidiMessages(ev, start)
        /\ AllOrLogged(AddedVis, EventVisMessages(ev, start))
    /\ before.exit_flag => exit_flag
    /\ dispatched_late <= 1

\* Ctrl-C arrived between the poll of the first event and its dispatch: the
\* note-on was dispatched all the same, and the poll of the second event
\* ended the loop.
C17_Witness ==
    /\ ppc = "closed"
    /\ exit_flag
    /\ Len(track) = 2 /\ event_idx = 2
    /\ polls = 2
    /\ dispatched_late = 1
    /\ track[1].kind = "NoteOn"
    /\ Len(visualizer.log) = 5 /\ visualizer.log[3].type = "NoteOn"

\* The last messages of the log are msgs.
EndsWith(log, msgs) ==
    /\ Len(log) >= Len(msgs)
    /\ SubSeq(log, Len(log) - Len(msgs) + 1, Len(log)) = msgs

\* The first messages of the log are msgs.
BeginsWith(log, msgs) ==
    /\ Len(log) >= Len(msgs)
    /\ SubSeq(log, 1, Len(msgs)) = msgs

\* C18: the reset sequence has run once, and was the first thing either
\* sink got, whenever an event is being processed; when the loop has ended,
\* by exhaustion of the track or by cancellation, it runs a second time
\* before the connection is closed, after everything the events sent: a
\* completed run has exactly two.
C18_ResetBeforeAndAfter ==
    /\ ppc \in {"boot", "reset"} =>
        /\ resets = 0 /\ polls = 0
        /\ midi_conn.log = << >> /\ visualizer.log = << >>
    /\ ppc \in {"poll", "event", "finish"} =>
        /\ resets = 1
        /\ BeginsWith(midi_conn.log, ResetMidiMessages)
        /\ BeginsWith(visualizer.log, ResetVisMessages)
    /\ ppc \in {"close", "closed"} =>
        /\ resets = 2
        /\ event_idx > Len(track) \/ exit_flag
        /\ BeginsWith(midi_conn.log, ResetMidiMessages)
        /\ BeginsWith(visualizer.log, ResetVisMessages)
        /\ EndsWith(midi_conn.log, ResetMidiMessages)
        /\ EndsWith(visualizer.log, ResetVisMessages)
        /\ Len(midi_conn.log) >= 2 * Len(ResetMidiMessages)
        /\ Len(visualizer.log) >= 2 * Len(ResetVisMessages)

\* A track of two events was played to its end and the connection closed:
\* two resets, with the messages of the events between them.
C18_Witness ==
    /\ ppc = "closed"
    /\ ~exit_flag
    /\ Len(track) = 2 /\ event_idx = 3
    /\ resets = 2
    /\ Len(midi_conn.log) > 2 * Len(ResetMidiMessages)
    /\ Len(visualizer.log) > 2 * Len(ResetVisMessages)

\* The last step of main was a run of reset() that returned.
ResetReturned == before.ppc \in {"reset", "finish"} /\ ppc # "panic"

\* C19: a run of reset sends 3 messages per channel to the MIDI sink, for
\* channel c = 0..15 in turn CC 121, CC 123 and the centred pitch bend on
\* channel c, and exactly two messages to the visualizer sink, one CC 121
\* and one CC 123.
C19_ResetSequence ==
    ResetReturned =>
        /\ Len(AddedMidi) = 3 * 16
        /\ \A c \in 0 .. 15 :
            /\ AddedMidi[3 * c + 1] = [type |-> "Controller", channel |-> c,
                                       a |-> 121, b |-> 0]
            /\ AddedMidi[3 * c + 2] = [type |-> "Controller", channel |-> c,
                                       a |-> 123, b |-> 0]
            /\ AddedMidi[3 * c + 3] = [type |-> "PitchBend", channel |-> c,
                                       bend |-> PitchBendCentre]
        /\ Len(AddedVis) = 2
        /\ AddedVis[1].type = "CC" /\ AddedVis[1].a = 121 /\ AddedVis[1].b = 0
        /\ AddedVis[2].type = "CC" /\ AddedVis[2].a = 123 /\ AddedVis[2].b = 0

\* The first reset has returned: 48 MIDI messages, the last the centred
\* bend of channel 15, and 2 visualizer messages.
C19_Witness ==
    /\ ResetReturned
    /\ ppc = "poll"
    /\ resets = 1 /\ polls = 0
    /\ Len(midi_conn.log) = 48
    /\ midi_conn.log[48].channel = 15 /\ IsBend(midi_conn.log[48])
    /\ Len(visualizer.log) = 2

\* The send to the visualizer that the fault plan makes fail has been tried.
VisualizerSendFailed == plan.sink = "vis" /\ visualizer.sends >= plan.at

\* C20: a failed send to the visualizer sink, in a reset or in the dispatch
\* of an event, is logged and does not abort main.
C20_VisualizerFailureIsLogged ==
    VisualizerSendFailed => (~visualizer.failed /\ ppc # "panic" /\ warnings = 1)

\* The send to the MIDI sink that the fault plan makes fail has been tried.
MidiSendFailed == plan.sink = "midi" /\ midi_conn.sends >= plan.at

\* C21: a failed send on either sink costs that one message only: main does
\* not abort, it goes on with the next message and the next event.
C21_FailedSendCostsOneMessage ==
    (MidiSendFailed \/ VisualizerSendFailed) => ppc # "panic"

\* The last step of main dispatched an event that was more than 1 ms late.
DispatchedBehind == LastStepFrom("event") /\ fell_behind /\ ppc # "panic"

\* C22: the events are processed one by one in the order of the track (the
\* position in the track moves by one, at a dispatch, and otherwise stays);
\* an event that is late is dispatched like any other, with its bends and
\* its own messages; and when the loop has ended without cancellation the
\* whole track has been polled and dispatched.
C22_LatenessDropsNothing ==
    /\ IF LastStepFrom("event") /\ ppc # "panic"
       THEN event_idx = before.event_idx + 1
       ELSE event_idx = before.event_idx
    /\ DispatchedBehind =>
        LET ev == track[before.event_idx] IN
        /\ start
        /\ AddedMidi = ActivationBends \o EventMidiMessages(ev, TRUE)
        /\ AllOrLogged(AddedVis, EventVisMessages(ev, TRUE))
    /\ (~exit_flag /\ ppc \in {"finish", "close", "closed"}) =>
        /\ event_idx = Len(track) + 1
        /\ polls = Len(track)

\* A note-on and its note-off were played to the end without cancellation,
\* the note-off late: the visualizer got it all the same, between the two
\* resets.
C22_Witness ==
    /\ ppc = "closed"
    /\ ~exit_flag
    /\ fell_behind
    /\ Len(track) = 2
    /\ track[1].kind = "NoteOn" /\ track[2].kind = "NoteOff"
    /\ Len(visualizer.log) = 6
    /\ visualizer.log[4].type = "NoteOff"

\* C23: playback starts at a dispatch, and only there: at the dispatch of
\* an event found not-started it starts if and only if the event is a MIDI
\* channel event and its expected time is >= START_FROM, so at the first
\* such event and never at a meta event; the anchor is then taken, at that
\* event, and once taken it is never changed or cleared.
C23_StartsAtFirstMidiEvent ==
    /\ start <=> start_instant # 0
    /\ LastStepFrom("event") =>
        LET ev == track[before.event_idx] IN
        /\ start <=> \/ before.start
                     \/ /\ ev.kind \in {"NoteOn", "NoteOff", "Controller"}
                        /\ expected_curr_time >= cfg.start_from
        /\ ev.kind \in {"Tempo", "TrackName"} => start = before.start
    /\ ~LastStepFrom("event") => start = before.start
    /\ before.start => start /\ start_instant = before.start_instant
    /\ (start /\ ~before.start) => start_instant = before.event_idx

\* With START_FROM at 500 ms: a tempo event at 500 ms did not start
\* playback, the note-on that followed it at the same time did.
C23_Witness ==
    /\ cfg.start_from = 500
    /\ Len(track) = 2
    /\ track[1].kind = "Tempo" /\ track[1].delta = PPQN
    /\ track[2].kind = "NoteOn"
    /\ LastStepFrom("event")
    /\ expected_curr_time = 500
    /\ start /\ ~before.start
    /\ start_instant = 2

IsNote(msg) == msg.type \in {"NoteOn", "NoteOff"}

NoNoteIn(log) == \A k \in 1 .. Len(log) : ~IsNote(log[k])

\* C24: while playback has not started neither sink has been sent a note;
\* the dispatch of a note-on or note-off that comes before START_FROM sends
\* nothing to the visualizer and at most pitch bends to the MIDI sink, and
\* leaves playback not started; the note that starts playback is itself
\* forwarded to the sinks that are switched on.
C24_NoNotesBeforeStart ==
    /\ ~start => NoNoteIn(midi_conn.log) /\ NoNoteIn(visualizer.log)
    /\ (LastStepFrom("event") /\ ~before.start) =>
        LET ev == track[before.event_idx] IN
        /\ (ev.kind \in {"NoteOn", "NoteOff"}
                /\ expected_curr_time < cfg.start_from) =>
            /\ ~start
            /\ AddedVis = << >>
            /\ NoNoteIn(AddedMidi)
        /\ (ev.kind \in {"NoteOn", "NoteOff"} /\ start /\ ppc # "panic") =>
            /\ cfg.midi =>
                /\ AddedMidi # << >>
                /\ AddedMidi[Len(AddedMidi)].type = ev.kind
                /\ AddedMidi[Len(AddedMidi)].a = ev.a
            /\ (cfg.vis /\ warnings = before.warnings) =>
                /\ Len(AddedVis) = 1
                /\ AddedVis[1].type = ev.kind

\* With START_FROM at 500 ms and both sinks switched on: a note-on at time
\* 0 was dispatched; the MIDI sink got the 12 bends of the entry activated
\* at time 0 and no note, the visualizer nothing.
C24_Witness ==
    /\ cfg.start_from = 500 /\ cfg.midi /\ cfg.vis
    /\ LastStepFrom("event")
    /\ event_idx = 2
    /\ track[1].kind = "NoteOn"
    /\ expected_curr_time = 0
    /\ ~start
    /\ Len(AddedMidi) = NumClasses
    /\ AddedVis = << >>

\* The last step of main dispatched a controller-change event to its end.
DispatchedController ==
    /\ LastStepFrom("event")
    /\ track[before.event_idx].kind = "Controller"
    /\ ppc # "panic"

\* C25: the dispatch of a controller-change event, started or not and
\* whatever the switches, sends its controller and value to the MIDI sink
\* as one controller message on channel 0 (after the bends of a new tuning,
\* if any) and as one CC message to the visualizer sink.
C25_ControllerAlwaysForwarded ==
    DispatchedController =>
        LET ev   == track[before.event_idx]
            last == AddedMidi[Len(AddedMidi)]
        IN
        /\ AddedMidi # << >>
        /\ last = [type |-> "Controller", channel |-> 0, a |-> ev.a, b |-> ev.b]
        /\ \A k \in 1 .. Len(AddedMidi) - 1 : IsBend(AddedMidi[k])
        /\ \/ /\ warnings = before.warnings
              /\ Len(AddedVis) = 1
              /\ AddedVis[1].type = "CC"
              /\ AddedVis[1].a = ev.a /\ AddedVis[1].b = ev.b
           \/ /\ warnings = before.warnings + 1
              /\ VisualizerSendFailed
              /\ AddedVis = << >>

\* With START_FROM at 500 ms: a controller change at time 0 was dispatched
\* and playback has not started; both sinks got it.
C25_Witness ==
    /\ DispatchedController
    /\ cfg.start_from = 500
    /\ expected_curr_time = 0
    /\ ~start
    /\ event_idx = 2
    /\ midi_conn.log[Len(midi_conn.log)].type = "Controller"
    /\ visualizer.log[Len(visualizer.log)].type = "CC"

\* Microseconds per quarter note in force for the delta of event i: those of
\* the last tempo event before event i, or 500000 (120 BPM) if there is
\* none.
UsPerQuarterBefore(i) ==
    LET tempos == {k \in 1 .. i - 1 : track[k].kind = "Tempo"}
    IN  IF tempos = {} THEN 500000
        ELSE track[CHOOSE k \in tempos : \A j \in tempos : j <= k].a

\* C26: the expected time of event i is that of the event before it plus
\* its delta at the tempo of the last tempo event before i (for a tempo
\* event too, not its own tempo), at 120 BPM if there is none; in ticks
\* times microseconds per quarter note on both sides.  The tempo the loop
\* holds while event i is polled and dispatched is that tempo.
C26_TempoForLaterDeltas ==
    /\ LastStepFrom("poll") =>
        LET i == before.event_idx IN
        (expected_curr_time - before.time) * PPQN * 1000
            = track[i].delta * UsPerQuarterBefore(i)
    /\ ~LastStepFrom("poll") => expected_curr_time = before.time
    /\ ppc \in {"poll", "event"} =>
        curr_bpm[1] * UsPerQuarterBefore(event_idx) = 60000000 * curr_bpm[2]

\* A tempo event of 240 BPM a quarter note into the track came at 500 ms
\* (120 BPM), the event a quarter note after it at 750 ms.
C26_Witness ==
    /\ LastStepFrom("poll")
    /\ Len(track) = 2 /\ event_idx = 2
    /\ track[1].kind = "Tempo" /\ track[1].a = 250000
    /\ track[1].delta = PPQN /\ track[2].delta = PPQN
    /\ before.time = 500
    /\ expected_curr_time = 750

(***************************************************************************)
(* Properties of the arithmetic.                                           *)
(***************************************************************************)

\* The last call was of fn and it returned.
Called(fn) == call.fn = fn /\ result.kind = "ok"

\* C27: after a tempo event of t microseconds per quarter note, curr_bpm is
\* 60,000,000 / t, and the expected time added for an event delta ticks
\* later is delta / PPQN * 60 / curr_bpm seconds, that is delta * t /
\* (PPQN * 1000) milliseconds (whole milliseconds here); with PPQN 4, a
\* tempo of 120 BPM and a delta of 4 ticks it is 500 ms and nothing is
\* rounded away.
C27_IncrementFromTempo ==
    Called("increment") =>
        LET tempo == call.args[1]
            delta == call.args[2]
            bpm   == result.value.bpm
            time  == result.value.time
        IN
        /\ bpm[1] * tempo = 60000000 * bpm[2]
        /\ time = (delta * tempo) \div (PPQN * 1000)
        /\ (PPQN = 4 /\ tempo = 500000) =>
            /\ bpm = <<120, 1>>
            /\ delta = 4 =>
                /\ time = 500
                /\ (delta * tempo) % (PPQN * 1000) = 0

\* A tempo event of 500000 microseconds per quarter note (120 BPM), and
\* an event 4 ticks after it.
C27_Witness ==
    /\ Called("increment")
    /\ PPQN = 4
    /\ call.args = <<500000, 4>>
    /\ result.value = [bpm |-> <<120, 1>>, time |-> 500]

\* C28: the monzo of a note-on for key k is the cached monzo of class
\* (k + 3) mod 12 with n = floor((k - 69) / 12) added to its first exponent
\* and every other exponent as cached; for a class at the unison 1/1 it is
\* the one-element vector [n]: [2] two octaves above A4, [-1] one octave
\* below.
C28_NoteMonzoOctaves ==
    Called("note_monzo") =>
        LET k      == call.args[2]
            cached == call.args[1][(k + 3) % 12]
            monzo  == result.value
            n      == CHOOSE n \in -6 .. 5 : 12 * n <= k - 69 /\ k - 69 < 12 * n + 12
        IN
        /\ Len(monzo) = Len(cached)
        /\ monzo[1] = cached[1] + n
        /\ \A j \in 2 .. Len(cached) : monzo[j] = cached[j]
        /\ cached = Monzo(<<1, 1>>)[1] =>
            /\ monzo = <<n>>
            /\ k = 69 + 24 => monzo = <<2>>
            /\ k = 69 - 12 => monzo = <<-1>>

\* A note two octaves above A4 whose class is at the unison: [2].
C28_Witness ==
    /\ Called("note_monzo")
    /\ call.args[2] = 93
    /\ call.args[1][0] = Monzo(<<1, 1>>)[1]
    /\ result.value = <<2>>

\* The exponent of the prime p in n/d: that in n minus that in d.
NetExponent(x, p) == Exponent(x[1], p) - Exponent(x[2], p)

\* Over the primes ps, floor(log2 p) times the exponent of p in x.
RECURSIVE OctaveSpans(_, _)
OctaveSpans(ps, x) ==
    IF ps = {} THEN 0
    ELSE LET p == CHOOSE p \in ps : TRUE
         IN  Log2Floor(p) * NetExponent(x, p) + OctaveSpans(ps \ {p}, x)

\* v is the vector the claim describes for the positive rational x: it
\* reaches to the largest prime of x; index i >= 1 holds the exponent of the
\* i-th prime in x; index 0 holds the exponent of 2 plus the octave spans of
\* the other primes.
IsReducedMonzoOf(v, x) ==
    LET ps == PrimeFactorsOf(x[1]) \cup PrimeFactorsOf(x[2]) IN
    /\ Len(v) >= 1
    /\ \A p \in ps : PrimeIndex(p) + 1 <= Len(v)
    /\ \A i \in 1 .. Len(v) - 1 :
        LET at == {p \in ps : PrimeIndex(p) = i}
        IN  IF at = {} THEN v[i + 1] = 0
            ELSE \A p \in at : v[i + 1] = NetExponent(x, p)
    /\ Len(v) > 1 => v[Len(v)] # 0
    /\ v[1] = NetExponent(x, 2) + OctaveSpans(ps \ {2}, x)

\* monzo() has been called and is over.
MonzoCalled == call.fn = "monzo" /\ result.kind # "none"

TdCalled == call.fn = "td" /\ result.kind # "none"

\* The interval out, in lowest terms, is in * offset, or half of it.
IsScaled(out, in, offset, halved) ==
    /\ out[2] > 0
    /\ Gcd(out[1], out[2]) = 1
    /\ out[1] * in[2] * offset[2] * (IF halved THEN 2 ELSE 1)
        = out[2] * in[1] * offset[1]

\* C30: td rejects a root >= 12; otherwise, for every i in 0..11, position
\* (i + root) mod 12 of the array it builds holds tuning[i] * offset when
\* i + root < 12 and half of that when i + root >= 12, a sentinel stays a
\* sentinel, every position is assigned exactly once, and the array is the
\* tuning of the TuningData returned (when TuningData::new accepts it), with
\* the time given.  The first call of the Ondine schedule gives its bar 0.
C30_TdRotatesAndHalves ==
    TdCalled =>
        LET a   == call.args
            new == result.loop.new_tuning
        IN
        IF a.root >= 12
        THEN /\ result.kind = "panic"
             /\ result.value.msg = "Root must be in range [0, 11]"
        ELSE /\ \A i \in 0 .. 11 :
                LET at == (i + a.root) % 12 IN
                /\ IsScaled(new[at], a.tuning[i], a.offset, i + a.root >= 12)
                /\ a.tuning[i][1] = 0 => new[at] = <<0, 1>>
             /\ \A at \in 0 .. 11 : result.loop.writes[at] = 1
             /\ result.kind = "ok" =>
                /\ result.value.td.tuning = new
                /\ result.value.td.time = a.time
             /\ result.kind = "panic" =>
                result.value.msg # "Root must be in range [0, 11]"
             /\ (a.root = 4 /\ a.offset = <<5, 4>> /\ a.tuning = RootedBar0) =>
                /\ result.kind = "ok"
                /\ new = TuningBar0

\* td(0.0, 4, 5/4, [...]) of bar 0: positions 4..11 hold the first eight
\* intervals times 5/4, positions 0..3 the last four times 5/4 and halved.
C30_Witness ==
    /\ TdCalled
    /\ call.args.root = 4
    /\ call.args.tuning = RootedBar0
    /\ result.kind = "ok"
    /\ result.value.td.tuning[4] = <<5, 4>>
    /\ result.value.td.tuning[0] = <<65, 64>>

(***************************************************************************)
(* Properties of main, continued.                                          *)
(***************************************************************************)

\* The fatal errors of the construction of the schedule.
ConstructionErrors ==
    { "Must have at least one tuning!",
      "First tuning data cannot use 0-value elements!",
      "Pitch bend range exceeded" }

\* C31: when the construction of the schedule ends in a fatal error (no
\* entry, a sentinel in the first entry, a bend beyond the range), main
\* aborts where the schedule is first used, before the sinks are opened:
\* no send to either sink has been tried, no reset begun, no event polled.
C31_ConstructionErrorBeforeAnySend ==
    TUNER.kind = "panic" =>
        /\ TUNER.msg \in ConstructionErrors
        /\ ppc \in {"boot", "panic"}
        /\ midi_conn = Sink(<< >>, 0, FALSE)
        /\ visualizer = Sink(<< >>, 0, FALSE)
        /\ resets = 0 /\ polls = 0

\* A schedule whose only entry bends class 8 beyond the range: main has
\* aborted, with a track to play, and nothing was sent.
C31_Witness ==
    /\ TUNER.kind = "panic"
    /\ TUNER.msg = "Pitch bend range exceeded"
    /\ ppc = "panic"
    /\ Len(track) = 2
    /\ midi_conn.sends = 0 /\ visualizer.sends = 0

\* The i-th prime, counting from 0: 2, 3, 5, ...
NthPrime(i) ==
    CHOOSE p \in 2 .. (i + 2) * (i + 2) : IsPrime(p) /\ PrimeIndex(p) = i

RECURSIVE Power(_, _)
Power(b, e) == IF e = 0 THEN 1 ELSE b * Power(b, e - 1)

\* The ratio rebuilt from a vector: the product of the i-th prime raised to
\* the exponent at index i, in lowest terms.
RECURSIVE RebuiltFrom(_, _)
RebuiltFrom(v, i) ==
    IF i > Len(v) - 1 THEN <<1, 1>>
    ELSE LET p      == NthPrime(i)
             e      == v[i + 1]
             factor == IF e >= 0 THEN <<Power(p, e), 1>> ELSE <<1, Power(p, 0 - e)>>
         IN  RatMul(factor, RebuiltFrom(v, i + 1))

\* monzo() has returned the vector of a non-sentinel interval.
MonzoReturned == MonzoCalled /\ result.kind = "ok" /\ call.args[1] # 0

\* The octaves octave reduction folds into index 0 for the interval x.
FoldedOctaves(x) ==
    OctaveSpans((PrimeFactorsOf(x[1]) \cup PrimeFactorsOf(x[2])) \ {2}, x)

\* C32 as stated: the ratio rebuilt from monzo() of a non-sentinel interval
\* is the interval (equal ratios are what have equal cents values).
C32_RoundTrip ==
    MonzoReturned => RebuiltFrom(result.value[1], 0) = call.args

\* C32, amended: the ratio rebuilt from monzo() of a non-sentinel interval
\* is the interval times 2^k, k the octaves folded into index 0 (the sum
\* over the primes p # 2 of floor(log2 p) times p's exponent): its cents
\* value is that of the interval plus 1200 k, and the same only when k = 0.
C32_RoundTripUpToOctaves ==
    MonzoReturned =>
        LET x       == call.args
            k       == FoldedOctaves(x)
            octaves == IF k >= 0 THEN <<Power(2, k), 1>> ELSE <<1, Power(2, 0 - k)>>
            rebuilt == RebuiltFrom(result.value[1], 0)
        IN
        /\ rebuilt = RatMul(x, octaves)
        /\ rebuilt = x <=> k = 0

\* monzo() of 5/4 is [0, 0, 1], which rebuilds 5/1: two octaves (2400
\* cents) above 5/4.
C32_Witness ==
    /\ MonzoReturned
    /\ call.args = <<5, 4>>
    /\ FoldedOctaves(call.args) = 2
    /\ RebuiltFrom(result.value[1], 0) = <<5, 1>>

\* The last step of main dispatched an event to its end.
Dispatched == LastStepFrom("event") /\ ppc # "panic"

\* The 0-based index of the latest entry of the schedule whose time is
\* <= time, -1 if there is none.
LatestDue(time) ==
    LET due == {i \in 1 .. Len(tuner.tunings) : tuner.tunings[i].time <= time}
    IN  IF due = {} THEN -1
        ELSE (CHOOSE i \in due : \A j \in due : j <= i) - 1

\* C33: whenever an event has been dispatched, the cursor is at the latest
\* entry whose activation time is <= the expected time of that event.
C33_CursorNeverLags ==
    Dispatched => tuner.curr_tuning_idx = LatestDue(expected_curr_time)

\* The number of classes of the entry that are not the sentinel.
TunedClasses(td) == Cardinality({i \in 0 .. 11 : td.tuning[i][1] # 0})

\* C34: (a) the top of an iteration queries the schedule and updates the
\* cache before it reads the flag: when it ends, cancelled or not, the cache
\* holds the entry returned, nothing has been sent and playback has not
\* been started by it; (b) the rest of the iteration leaves the cache
\* alone and sends to the MIDI sink first the bends of the entry returned,
\* one per tuned class, then at most one message of the event itself: a
\* note-on comes after all the bends of the entry it activated.
C34_IterationOrder ==
    /\ (LastStepFrom("poll") /\ ppc # "panic") =>
        /\ AddedMidi = << >> /\ AddedVis = << >>
        /\ start = before.start
        /\ before.exit_flag => ppc = "finish"
        /\ IF tuning_data = << >>
           THEN curr_tuning = before.curr_tuning
           ELSE \A i \in 0 .. 11 :
                    curr_tuning[i] = IF tuning_data[1].tuning[i][1] = 0
                                     THEN before.curr_tuning[i]
                                     ELSE tuning_data[1].tuning[i]
    /\ Dispatched =>
        LET ev    == track[before.event_idx]
            bends == IF tuning_data = << >> THEN 0 ELSE TunedClasses(tuning_data[1])
        IN
        /\ curr_tuning = before.curr_tuning
        /\ curr_monzos = before.curr_monzos
        /\ Len(AddedMidi) \in {bends, bends + 1}
        /\ \A k \in 1 .. Len(AddedMidi) : IsBend(AddedMidi[k]) <=> k <= bends
        /\ (ev.kind = "NoteOn" /\ start /\ cfg.midi) =>
            /\ Len(AddedMidi) = bends + 1
            /\ AddedMidi[bends + 1].type = "NoteOn"
            /\ AddedMidi[bends + 1].a = ev.a

\* With MIDI output switched on: the first event, a note-on at time 0,
\* activated bar 0 and started playback; the MIDI sink got the 12 bends and
\* then the note-on.
C34_Witness ==
    /\ Dispatched
    /\ cfg.midi
    /\ event_idx = 2
    /\ track[1].kind = "NoteOn"
    /\ tuning_data # << >>
    /\ Len(AddedMidi) = 13
    /\ IsBend(AddedMidi[12])
    /\ AddedMidi[13].type = "NoteOn"

\* C35: for every key k in 0 .. 127 the channel of the note, (k - 69) mod 12
\* (Euclidean), is the class (k + 3) mod 12 of its cache lookup, a channel
\* in 0 .. 11, and it is the channel the bend message of that class in a
\* schedule entry (bar 0) is addressed to.
C35_NoteOnChannelOfItsClass ==
    Called("note_monzo") =>
        LET k    == call.args[2]
            bar0 == TuningDataNew(TuningBar0, 0).td
        IN
        /\ result.class = (k + 3) % 12
        /\ result.channel = result.class
        /\ result.channel \in 0 .. 11
        /\ bar0.midi_messages[result.class][1].channel = result.channel
        /\ \A i \in 0 .. 11 : bar0.midi_messages[i][1].channel = i

\* Middle C, key 60, nine semitones below A4: channel and class 3.
C35_Witness ==
    /\ Called("note_monzo")
    /\ call.args[2] = 60
    /\ result.channel = 3
    /\ result.class = 3

\* C36: the expected time of every query of the loop is not earlier than
\* that of the query before it, and no query of the loop ends in a panic,
\* whatever the accepted schedule and the track are.
C36_QueriesNeverFatal ==
    LastStepFrom("poll") =>
        /\ expected_curr_time >= before.time
        /\ ppc # "panic"

\* The positions in the MIDI log of the bend messages on channel c.
BendsOn(c) ==
    {k \in 1 .. Len(midi_conn.log) :
        IsBend(midi_conn.log[k]) /\ midi_conn.log[k].channel = c}

\* The bend is that of the interval x at class i: the centre is the bend of
\* an offset of 0 cents, which among the rationals only 1/1 at class 0 has.
IsBendOf(bend, x, i) ==
    \/ bend = PitchBendOf(x, i)
    \/ bend = PitchBendCentre /\ i = 0 /\ x = <<1, 1>>

\* The last step of main forwarded a note-on, the first entry of the
\* schedule having been activated.
DispatchedNoteOn ==
    /\ Dispatched
    /\ start
    /\ track[before.event_idx].kind = "NoteOn"
    /\ tuner.curr_tuning_idx >= 0

\* C37: once the first entry has activated, at every note-on dispatch and
\* for every class i the last bend message sent on channel i is the bend of
\* the cached interval of class i.
C37_LastBendIsCachedTuning ==
    DispatchedNoteOn =>
        \A i \in Classes :
            /\ BendsOn(i) # {}
            /\ LET last == CHOOSE k \in BendsOn(i) : \A j \in BendsOn(i) : j <= k
               IN  IsBendOf(midi_conn.log[last].bend, curr_tuning[i], i)

\* C38: in every state of main and for every class i, the cached monzo of
\* class i is monzo() of the cached interval of class i, from the initial
\* 1/1 on and through activations of entries with sentinels.  Stated step
\* by step: the pair of class i is in step at the start, and every step
\* either leaves the pair as the state before it had it or leaves it in
\* step.
C38_CachesInStep ==
    \A i \in Classes :
        \/ /\ ppc # "boot"
           /\ curr_tuning[i] = before.curr_tuning[i]
           /\ curr_monzos[i] = before.curr_monzos[i]
        \/ curr_monzos[i] = Monzo(curr_tuning[i])[1]

\* The second entry, which retunes classes 5 and 11 only, has activated
\* after bar 0: class 5 holds the new interval and its monzo, class 0 those
\* of bar 0.
C38_Witness ==
    /\ Activated
    /\ HasSentinel(tuning_data[1])
    /\ tuner.curr_tuning_idx = 1
    /\ curr_tuning[5] = TuningBar5[5]
    /\ curr_monzos[5] = Monzo(TuningBar5[5])[1]
    /\ curr_tuning[0] = TuningBar0[0]
    /\ curr_monzos[0] = Monzo(TuningBar0[0])[1]

\* The last step of main dispatched a note-on or a note-off.
DispatchedNote ==
    /\ Dispatched
    /\ track[before.event_idx].kind \in {"NoteOn", "NoteOff"}

\* C39: the dispatch of a note-on or note-off leaves the schedule cursor,
\* the tempo and both caches as they were; the monzo sent to the visualizer
\* with a note-on is the cached vector of the class with the octaves of this
\* note alone added to its first exponent.
C39_NoteLeavesCaches ==
    DispatchedNote =>
        LET ev == track[before.event_idx] IN
        /\ tuner.curr_tuning_idx = before.cursor
        /\ curr_bpm = before.curr_bpm
        /\ curr_tuning = before.curr_tuning
        /\ curr_monzos = before.curr_monzos
        /\ (ev.kind = "NoteOn" /\ AddedVis # << >>) =>
            LET cached == curr_monzos[(ev.a + 3) % 12]
                sent   == AddedVis[1].monzo
            IN  /\ Len(sent) = Len(cached)
                /\ sent[1] = cached[1] + ((ev.a - A4) \div 12)
                /\ \A j \in 2 .. Len(cached) : sent[j] = cached[j]

\* Two note-ons of key 62 in a row, both forwarded: the visualizer got the
\* same monzo with each, one octave below the cached one.
C39_Witness ==
    /\ DispatchedNote
    /\ event_idx = 3
    /\ track[1].kind = "NoteOn" /\ track[2].kind = "NoteOn"
    /\ Len(visualizer.log) >= 2
    /\ LET n == Len(visualizer.log) IN
        /\ visualizer.log[n].type = "NoteOn"
        /\ visualizer.log[n - 1].type = "NoteOn"
        /\ visualizer.log[n].monzo = visualizer.log[n - 1].monzo
        /\ visualizer.log[n].monzo[1] = curr_monzos[5][1] - 1

\* C40: a sink that is switched off is sent nothing: no send to the MIDI
\* sink is tried while ACTIVATE_MIDI is false, and none to the visualizer
\* while ACTIVATE_VISUALIZER is false.
C40_DisabledSinkGetsNothing ==
    /\ ~cfg.midi => midi_conn.sends = 0
    /\ ~cfg.vis => visualizer.sends = 0

=============================================================================
